---- MODULE Spec2Model ----
(***************************************************************************)
(* ActionCraft: the video -> frames -> 2x2 grids pipeline of               *)
(* src/src/VideoToGrid.ts (class VideoFrameExtractor) and the script of    *)
(* src/src/test.ts that runs it before the grid analysis and the display.  *)
(*                                                                         *)
(* Durations and timestamps are exact rationals.  A duration is an integer *)
(* number of centiseconds (1 s = 100 cs); a timestamp is a record          *)
(* [num, den] meaning num/den centiseconds, den > 0.                       *)
(* File names are modelled by the digit string that padStart produces:     *)
(* frame_007.jpg is <<0, 0, 7>>; all frame paths share the prefix and the  *)
(* suffix, so the digit string decides every string comparison.            *)
(***************************************************************************)
EXTENDS Integers, Sequences, FiniteSets, TLC

VARIABLES
    env,          \* the external collaborators: decoder, filesystem faults, scheduler
    pc,           \* where process() is
    error,        \* code of the VideoProcessingError process() rejected with
    sourceFolder, \* files of content/automate
    framesDir,    \* content/frames: [exists, files], files: name -> content
    gridDir,      \* content/grid:   [exists, files]
    duration,     \* durationInSeconds, the number the decoder reported (cs)
    config,       \* FrameConfig chosen by extractFrames
    frameCount,   \* frameCount of extractFrames
    frameFiles,   \* the frameFiles array of extractFrames
    inflight,     \* asynchronous sub-operations issued and not yet settled
    startFrames,  \* names in content/frames when process() was called
    startGrid,    \* names in content/grid when process() was called
    settleOrder,  \* interior frames in the order their extractions succeeded
    lastDone,     \* what the run before this one produced, if it reached Done
    prevDone,     \* at Done: what the run before produced, if it reached Done
    video,        \* the file findVideo returned
    perms,        \* what fs.access would answer: [source: readable, frames: writable]
    reported,     \* what getVideoDurationInSeconds answered in this run
    extractCalls, \* the extractFrame calls of this run, in the order they were issued
    thrown,       \* the error that reached the catch block of process()
    rejection,    \* the VideoProcessingError process() rejected with: [code, message]
    driver,       \* the script of src/src/test.ts: [pc, ran, results, exitCode]
    planD,        \* planner harness: the duration under test (cs)
    planLower,    \* planner harness: a duration <= planD classified before
    planPc,       \* planner harness: "input" or "planned"
    planConfig,   \* planner harness: getFrameConfig(planD / 60)
    planLowerConfig, \* planner harness: getFrameConfig(planLower / 60)
    planCalls,    \* planner harness: the extractFrame calls extractFrames makes for planD
    layout,       \* layout harness: one createGrid call, [pc, frames, width, height, overlays]
    analyzer,     \* analyzer harness: one call of GridToAction.process(),
                  \* [pc, format, images, reply, result, rejection, written]
    codegen,      \* generation harness: one call of generateAutomationCode, [pc, validator, calls]
    editor,       \* editing harness: one TaskAnalysisDisplay, [pc, result, taskInput, ...]
    other         \* a second call of process() on the same folders, while it is not the one
                  \* taking a step: its per-run state, and whether the two calls interleaved

pipeVars == <<env, pc, error, sourceFolder, framesDir, gridDir, duration, config,
              frameCount, frameFiles, inflight, startFrames, startGrid, settleOrder,
              lastDone, prevDone, video, perms, reported, extractCalls, thrown, rejection,
              driver>>
\* the state of the extractor alone
extractorVars == <<env, pc, error, sourceFolder, framesDir, gridDir, duration, config,
                   frameCount, frameFiles, inflight, startFrames, startGrid, settleOrder,
                   lastDone, prevDone, video, perms, reported, extractCalls, thrown,
                   rejection>>
planVars == <<planD, planLower, planPc, planConfig, planLowerConfig, planCalls>>
\* the harnesses that apply one function of the program to bounded inputs
harnessVars == <<layout, analyzer, editor, codegen, other>>
vars == <<pipeVars, planVars, harnessVars>>

(***************************************************************************)
(* Bounds of the model.                                                    *)
(***************************************************************************)
\* Longest duration (cs) the planner harness classifies.
MaxPlanDuration == 30050
\* Largest planned frame count of the videos given to the fault-injected pipeline.
MaxShortFrames == 5

(***************************************************************************)
(* Arithmetic helpers.                                                     *)
(***************************************************************************)
Min(a, b) == IF a <= b THEN a ELSE b

\* Math.ceil(a / b) for a >= 0, b > 0
CeilDiv(a, b) == (a + b - 1) \div b

\* Exact comparison of rationals [num, den], den > 0.
RatLess(a, b) == a.num * b.den < b.num * a.den
RatEq(a, b) == a.num * b.den = b.num * a.den
Rat(n, d) == [num |-> n, den |-> d]

\* durationInSeconds / 60, for a duration of D centiseconds
Minutes(D) == Rat(D, 6000)

(***************************************************************************)
(* getFrameConfig                                                          *)
(***************************************************************************)
\* every comparison is strict
FrameConfigOpenBuckets(m) ==
    IF m.num * 2 < m.den THEN [interval |-> 2, maxFrames |-> 16]
    ELSE IF m.num < m.den THEN [interval |-> 3, maxFrames |-> 20]
    ELSE IF m.num < 2 * m.den THEN [interval |-> 4, maxFrames |-> 28]
    ELSE IF m.num < 3 * m.den THEN [interval |-> 5, maxFrames |-> 32]
    ELSE IF m.num < 4 * m.den THEN [interval |-> 6, maxFrames |-> 36]
    ELSE [interval |-> 7, maxFrames |-> 40]

\* the rows for <= 1 min and <= 2 min are exchanged
FrameConfigSwappedRows(m) ==
    IF m.num * 2 <= m.den THEN [interval |-> 2, maxFrames |-> 16]
    ELSE IF m.num <= m.den THEN [interval |-> 4, maxFrames |-> 28]
    ELSE IF m.num <= 2 * m.den THEN [interval |-> 3, maxFrames |-> 20]
    ELSE IF m.num <= 3 * m.den THEN [interval |-> 5, maxFrames |-> 32]
    ELSE IF m.num <= 4 * m.den THEN [interval |-> 6, maxFrames |-> 36]
    ELSE [interval |-> 7, maxFrames |-> 40]

getFrameConfig(m) ==
    IF m.num * 2 <= m.den THEN [interval |-> 2, maxFrames |-> 16]
    ELSE IF m.num <= m.den THEN [interval |-> 3, maxFrames |-> 20]
    ELSE IF m.num <= 2 * m.den THEN [interval |-> 4, maxFrames |-> 28]
    ELSE IF m.num <= 3 * m.den THEN [interval |-> 5, maxFrames |-> 32]
    ELSE IF m.num <= 4 * m.den THEN [interval |-> 6, maxFrames |-> 36]
    ELSE [interval |-> 7, maxFrames |-> 40]

\* the limit is applied to whole minutes
DurationTooLongFloored(D) == D \div 6000 > 5

\* durationInMinutes > 5
DurationTooLong(D) == RatLess(Rat(5, 1), Minutes(D))

\* the numeric durations validateDuration returns instead of throwing
DurationAccepted(D) == D > 0 /\ ~ DurationTooLong(D)

\* the frame at t = 0 is not counted
FrameCountNoPlusOne(D, cfg) == Min(D \div (cfg.interval * 100), cfg.maxFrames)

\* the frame count without the cap of the bucket
FrameCountUncapped(D, cfg) == (D \div (cfg.interval * 100)) + 1

\* Math.min(Math.floor(durationInSeconds / config.interval) + 1, config.maxFrames)
FrameCountOf(D, cfg) == Min((D \div (cfg.interval * 100)) + 1, cfg.maxFrames)

(***************************************************************************)
(* File names.                                                             *)
(***************************************************************************)
\* the decimal digits of n, most significant first
RECURSIVE Digits(_)
Digits(n) == IF n < 10 THEN <<n>> ELSE Append(Digits(n \div 10), n % 10)

\* String(n).padStart(3, '0')
RECURSIVE PadLeft(_, _)
PadLeft(s, w) == IF Len(s) >= w THEN s ELSE PadLeft(<<0>> \o s, w)
PadStart3(n) == PadLeft(Digits(n), 3)

\* s < t as strings (code-unit order)
RECURSIVE StrLess(_, _)
StrLess(s, t) ==
    IF t = <<>> THEN FALSE
    ELSE IF s = <<>> THEN TRUE
    ELSE IF Head(s) # Head(t) THEN Head(s) < Head(t)
    ELSE StrLess(Tail(s), Tail(t))

\* Array.prototype.sort() with the default comparator
RECURSIVE Insert(_, _)
Insert(x, s) ==
    IF s = <<>> THEN <<x>>
    ELSE IF StrLess(x, Head(s)) THEN <<x>> \o s
    ELSE <<Head(s)>> \o Insert(x, Tail(s))
RECURSIVE SortNames(_)
SortNames(s) == IF s = <<>> THEN <<>> ELSE Insert(Head(s), SortNames(Tail(s)))

\* frameFiles.slice(from, to) with 0-based, end-exclusive indices
Slice(s, from, to) == SubSeq(s, from + 1, Min(to, Len(s)))

(***************************************************************************)
(* The world outside the program.                                          *)
(***************************************************************************)
\* what content/automate can hold when process() is called
SourceFolders ==
    LET mp4 == [name |-> "demo", ext |-> ".mp4", size |-> 1]
        mov == [name |-> "clip", ext |-> ".MOV", size |-> 0]
        txt == [name |-> "notes", ext |-> ".txt", size |-> 1]
    IN {{}, {txt}, {mp4, txt}, {mov}, {mp4, mov}}

\* what getVideoDurationInSeconds can answer: a number of cs, NaN, or a rejection
Value(D) == [kind |-> "value", d |-> D]
\* 1 s, 3 s, 5 s, ...: the shortest videos with 1, 2, 3, ... planned frames
ShortDurations == {100 * (2 * k - 1) : k \in 1 .. MaxShortFrames}
DurationReports ==
    {Value(D) : D \in ShortDurations \cup {0, 30100}}
        \cup {[kind |-> "nan", d |-> 0], [kind |-> "error", d |-> 0]}

\* every external call can fail and concurrent calls settle in any order
FaultyEnv == [durations |-> DurationReports, faults |-> TRUE, reorder |-> TRUE]
\* a decoder and a filesystem that never fail, on a 90 s video
ScenarioEnv == [durations |-> {Value(9000)}, faults |-> FALSE, reorder |-> FALSE]

\* a decoder that answers with a duration at or next to a limit of validateDuration
\* (0.01 s, 300 s, 300.01 s, 0 s), with NaN or not at all; nothing else fails
LimitEnv ==
    [durations |-> {Value(1), Value(30000), Value(30001), Value(0),
                    [kind |-> "nan", d |-> 0], [kind |-> "error", d |-> 0]},
     faults |-> FALSE, reorder |-> FALSE]

\* the results an external call can have: TRUE = success
Outcomes == IF env.faults THEN {TRUE, FALSE} ELSE {TRUE}

\* the results a call that changes folder d can have: nothing can be removed
\* from or written to a folder without write permission
WriteOutcomes(d) == IF d = "frames" /\ ~ perms.frames THEN {FALSE} ELSE Outcomes

\* a directory
Dir(e, f) == [exists |-> e, files |-> f]
NoFiles == <<>>
Names(dir) == DOMAIN dir.files
FreshNames(dir) == {n \in Names(dir) : dir.files[n].fresh}
\* files of an earlier run are no longer fresh
Aged(dir) ==
    Dir(dir.exists, [n \in Names(dir) |-> [dir.files[n] EXCEPT !.fresh = FALSE]])
WriteFile(dir, n, c) == Dir(dir.exists, (n :> c) @@ dir.files)
RemoveFile(dir, n) == Dir(dir.exists, [x \in Names(dir) \ {n} |-> dir.files[x]])

NoConfig == [interval |-> 0, maxFrames |-> 0]
NoRun == [d |-> 0, frames |-> 0, grids |-> 0]
NoVideo == [name |-> "", ext |-> "", size |-> 0]
NoReport == [kind |-> "none", d |-> 0]
\* no access check has failed
NoPerms == [source |-> TRUE, frames |-> TRUE]

(***************************************************************************)
(* Asynchronous sub-operations.                                            *)
(***************************************************************************)
UnlinkOp(d, n) == [kind |-> "unlink", dir |-> d, name |-> n, t |-> Rat(0, 1), frames |-> <<>>]
ExtractOp(n, t) == [kind |-> "extract", dir |-> "frames", name |-> n, t |-> t, frames |-> <<>>]
\* every createGrid writes grid_000
GridOpSameName(n, fs) ==
    [kind |-> "grid", dir |-> "grid", name |-> PadStart3(0), t |-> Rat(0, 1), frames |-> fs]

GridOp(n, fs) == [kind |-> "grid", dir |-> "grid", name |-> n, t |-> Rat(0, 1), frames |-> fs]

\* the scheduler lets op settle now
MaySettle(op) ==
    /\ op \in inflight
    /\ env.reorder \/ \A o \in inflight : ~ StrLess(o.name, op.name)

(***************************************************************************)
(* Timestamps chosen by extractFrames (cs).                                *)
(***************************************************************************)
FirstTimestamp == Rat(0, 1)
\* (i + 1) * interval, interval = (durationInSeconds - 1) / (frameCount - 2)
MiddleTimestamp(D, fc, i) == Rat((i + 1) * (D - 100), fc - 2)
\* durationInSeconds - 0.1
LastTimestamp(D) == Rat(D - 10, 1)

(***************************************************************************)
(* process()                                                               *)
(***************************************************************************)
\* new VideoProcessingError(message, code); a message is the sequence of the
\* strings concatenated into it
VideoProcessingError(message, code) == [typed |-> TRUE, code |-> code, message |-> message]
\* any other Error: a rejection of fs, of exec (ffmpeg) or of sharp
Error(message) == [typed |-> FALSE, code |-> "Error", message |-> <<message>>]
NoError == [typed |-> FALSE, code |-> "none", message |-> <<>>]

\* every error is wrapped again, typed or not
processCatchWrapsAll(e) ==
    VideoProcessingError(<<"Unexpected error during video processing: ">> \o e.message,
                         "UNKNOWN_ERROR")

\* the catch block of process()
processCatch(e) ==
    IF e.typed THEN e
    ELSE VideoProcessingError(<<"Unexpected error during video processing: ">> \o e.message,
                              "UNKNOWN_ERROR")

\* the catch block of findVideo
findVideoCatch(e) ==
    IF e.typed THEN e
    ELSE VideoProcessingError(<<"Error accessing video file: ">> \o e.message,
                              "FILE_ACCESS_ERROR")

\* the catch block of validateDuration
validateDurationCatch(e) ==
    IF e.typed THEN e
    ELSE VideoProcessingError(<<"Error reading video duration: ">> \o e.message,
                              "DURATION_READ_ERROR")

\* e is thrown inside the try block of process(): process() rejects
Fail(e) ==
    /\ pc' = "Failed"
    /\ thrown' = e
    /\ rejection' = processCatch(e)
    /\ error' = processCatch(e).code

planUnchanged == UNCHANGED <<planVars, harnessVars>>
extractorUnchanged == UNCHANGED extractorVars

\* process() has not been called yet
Constructed(e, frames, grid) ==
    /\ env = e
    /\ pc = "Idle"
    /\ error = "none"
    /\ sourceFolder = {}
    /\ framesDir = frames
    /\ gridDir = grid
    /\ duration = 0
    /\ config = NoConfig
    /\ frameCount = 0
    /\ frameFiles = <<>>
    /\ inflight = {}
    /\ startFrames = Names(frames)
    /\ startGrid = Names(grid)
    /\ settleOrder = <<>>
    /\ lastDone = NoRun
    /\ prevDone = NoRun
    /\ video = NoVideo
    /\ perms = NoPerms
    /\ reported = NoReport
    /\ extractCalls = <<>>
    /\ thrown = NoError
    /\ rejection = NoError

NoLayout == [pc |-> "off", frames |-> 0, width |-> 0, height |-> 0, overlays |-> <<>>]
\* process() is called by one caller only
NoOther == [pc |-> "none", interleaved |-> FALSE]
NoAnalyzer == [pc |-> "off"]
NoEditor == [pc |-> "off"]
LayoutOff == layout = NoLayout
AnalyzerOff == analyzer = NoAnalyzer
EditorOff == editor = NoEditor
NoCodegen == [pc |-> "off"]
CodegenOff == codegen = NoCodegen
OtherOff == other = NoOther
HarnessOff == LayoutOff /\ AnalyzerOff /\ EditorOff /\ CodegenOff /\ OtherOff

PlannerOff ==
    /\ HarnessOff
    /\ planD = 0
    /\ planLower = 0
    /\ planPc = "off"
    /\ planConfig = NoConfig
    /\ planLowerConfig = NoConfig
    /\ planCalls = <<>>

\* what an earlier run on a 5-minute video left behind
LeftoverFrames ==
    Dir(TRUE, (PadStart3(0) :> [t |-> Rat(0, 1), fresh |-> FALSE])
                @@ (PadStart3(39) :> [t |-> Rat(29990, 1), fresh |-> FALSE]))
LeftoverGrids ==
    Dir(TRUE, PadStart3(9) :> [frames |-> <<PadStart3(36), PadStart3(37), PadStart3(38), PadStart3(39)>>,
                              fresh |-> FALSE])

\* nobody runs the script of src/src/test.ts
NoDriver == [pc |-> "off", ran |-> <<>>, results |-> <<>>, exitCode |-> 0]
DriverOff == driver = NoDriver

Init ==
    /\ \/ Constructed(FaultyEnv, Dir(FALSE, NoFiles), Dir(FALSE, NoFiles))
       \/ Constructed(FaultyEnv, LeftoverFrames, LeftoverGrids)
    /\ PlannerOff
    /\ DriverOff

\* process() is entered; the folders are as the world left them
beginProcess ==
    /\ pc \in {"Idle", "Done", "Failed"}
    /\ inflight = {}
    /\ sourceFolder' \in SourceFolders
    /\ perms' = NoPerms
    /\ framesDir' = Aged(framesDir)
    /\ gridDir' = Aged(gridDir)
    /\ startFrames' = Names(framesDir)
    /\ startGrid' = Names(gridDir)
    /\ pc' = "ValidatingFFmpeg"
    /\ error' = "none"
    /\ thrown' = NoError
    /\ rejection' = NoError
    /\ video' = NoVideo
    /\ reported' = NoReport
    /\ extractCalls' = <<>>
    /\ duration' = 0
    /\ config' = NoConfig
    /\ frameCount' = 0
    /\ frameFiles' = <<>>
    /\ settleOrder' = <<>>
    /\ lastDone' = IF pc = "Done" THEN lastDone ELSE NoRun
    /\ prevDone' = NoRun
    /\ UNCHANGED <<env, inflight>>
    /\ planUnchanged

\* a caller invokes process(); runs do not overlap
StartProcess ==
    /\ driver.pc = "off"
    /\ beginProcess
    /\ UNCHANGED driver

validateFFmpeg ==
    /\ pc = "ValidatingFFmpeg"
    /\ \E ok \in Outcomes :
        IF ok THEN pc' = "ValidatingFolders" /\ UNCHANGED <<error, thrown, rejection>>
        ELSE Fail(VideoProcessingError(
                 <<"FFmpeg is not installed or not in PATH. Please install FFmpeg first.">>,
                 "FFMPEG_NOT_FOUND"))
    /\ UNCHANGED <<env, video, perms, reported, extractCalls, driver,
                   sourceFolder, framesDir, gridDir, duration, config, frameCount,
                   frameFiles, inflight, startFrames, startGrid, settleOrder, lastDone, prevDone>>
    /\ planUnchanged

\* what the outer catch of validateFolderPermissions throws, whatever it caught
PermissionError ==
    VideoProcessingError(
        <<"Insufficient permissions to access folders. Check folder permissions.">>,
        "PERMISSION_ERROR")

\* access(sourceFolder, R_OK); access(framesFolder), access(framesFolder, W_OK);
\* content/grid is not looked at.  perms keeps what the access calls found.
validateFolderPermissions ==
    /\ pc = "ValidatingFolders"
    /\ \E readable \in Outcomes, writable \in Outcomes, mkdirOk \in Outcomes :
        IF ~ readable
        THEN /\ Fail(PermissionError)
             /\ perms' = [source |-> FALSE, frames |-> TRUE]
             /\ UNCHANGED framesDir
        ELSE IF framesDir.exists /\ writable
        THEN pc' = "LocatingVideo" /\ UNCHANGED <<error, thrown, rejection, framesDir, perms>>
        \* the inner catch: mkdir(framesFolder, {recursive: true}), which succeeds on
        \* a folder that exists
        ELSE IF framesDir.exists \/ mkdirOk
        THEN /\ pc' = "LocatingVideo"
             /\ perms' = [source |-> TRUE, frames |-> ~ framesDir.exists]
             /\ framesDir' = [framesDir EXCEPT !.exists = TRUE]
             /\ UNCHANGED <<error, thrown, rejection>>
        ELSE Fail(PermissionError) /\ UNCHANGED <<framesDir, perms>>
    /\ UNCHANGED <<env, video, reported, extractCalls, driver,
                   sourceFolder, gridDir, duration, config, frameCount,
                   frameFiles, inflight, startFrames, startGrid, settleOrder, lastDone, prevDone>>
    /\ planUnchanged

\* path.extname(file).toLowerCase()
ToLowerCase(ext) == IF ext = ".MOV" THEN ".mov" ELSE ext
supportedFormats == {".mp4", ".mov", ".avi", ".mkv", ".wmv"}
\* the extension is compared as written
VideoFilesCaseSensitive(folder) == {f \in folder : f.ext \in supportedFormats}
VideoFiles(folder) == {f \in folder : ToLowerCase(f.ext) \in supportedFormats}

\* the result of a try block: a value returned or an error thrown
Returned(v) == [ok |-> TRUE, value |-> v, error |-> NoError]
Threw(e) == [ok |-> FALSE, value |-> NoVideo, error |-> e]

\* the size of the file is not looked at
findVideoTryAnySize(folder, readdirOk, statOk) ==
    LET videoFiles == VideoFiles(folder) IN
    IF ~ readdirOk THEN Threw(Error("ENOENT: no such file or directory, scandir"))
    ELSE IF Cardinality(videoFiles) = 0
    THEN Threw(VideoProcessingError(<<"No video file found. Supported formats: ",
                                      ".mp4, .mov, .avi, .mkv, .wmv">>, "NO_VIDEO_FOUND"))
    ELSE IF Cardinality(videoFiles) > 1
    THEN Threw(VideoProcessingError(
                   <<"Multiple video files found. Please keep only one video file">>,
                   "MULTIPLE_VIDEOS"))
    ELSE IF ~ statOk THEN Threw(Error("EACCES: permission denied, stat"))
    ELSE Returned(CHOOSE f \in videoFiles : TRUE)

\* the try block of findVideo: readdir, filter, the two counts, stat, the size
findVideoTry(folder, readdirOk, statOk) ==
    LET videoFiles == VideoFiles(folder) IN
    IF ~ readdirOk THEN Threw(Error("ENOENT: no such file or directory, scandir"))
    ELSE IF Cardinality(videoFiles) = 0
    THEN Threw(VideoProcessingError(<<"No video file found. Supported formats: ",
                                      ".mp4, .mov, .avi, .mkv, .wmv">>, "NO_VIDEO_FOUND"))
    ELSE IF Cardinality(videoFiles) > 1
    THEN Threw(VideoProcessingError(
                   <<"Multiple video files found. Please keep only one video file">>,
                   "MULTIPLE_VIDEOS"))
    ELSE IF ~ statOk THEN Threw(Error("EACCES: permission denied, stat"))
    ELSE IF (CHOOSE f \in videoFiles : TRUE).size = 0
    THEN Threw(VideoProcessingError(<<"Video file is empty">>, "EMPTY_FILE"))
    ELSE Returned(CHOOSE f \in videoFiles : TRUE)

findVideo ==
    /\ pc = "LocatingVideo"
    /\ \E readdirOk \in Outcomes, statOk \in Outcomes :
        LET r == findVideoTry(sourceFolder, readdirOk, statOk) IN
        IF r.ok
        THEN /\ video' = r.value
             /\ pc' = "ReadingDuration"
             /\ UNCHANGED <<error, thrown, rejection>>
        ELSE Fail(findVideoCatch(r.error)) /\ UNCHANGED video
    /\ UNCHANGED <<env, perms, reported, extractCalls, driver,
                   sourceFolder, framesDir, gridDir, duration, config, frameCount,
                   frameFiles, inflight, startFrames, startGrid, settleOrder, lastDone, prevDone>>
    /\ planUnchanged

\* the limit is compared with >= instead of >
validateDurationTryStrict(r) ==
    IF r.kind = "error" THEN Threw(Error("No duration found!"))
    ELSE IF r.kind = "nan" \/ r.d <= 0
    THEN Threw(VideoProcessingError(<<"Invalid video duration detected">>, "INVALID_DURATION"))
    ELSE IF ~ RatLess(Minutes(r.d), Rat(5, 1))
    THEN Threw(VideoProcessingError(<<"Video length exceeds 5 minutes limit">>,
                                    "DURATION_TOO_LONG"))
    ELSE Returned(r.d)

\* the try block of validateDuration on the answer r of getVideoDurationInSeconds
validateDurationTry(r) ==
    IF r.kind = "error" THEN Threw(Error("No duration found!"))
    ELSE IF r.kind = "nan" \/ r.d <= 0
    THEN Threw(VideoProcessingError(<<"Invalid video duration detected">>, "INVALID_DURATION"))
    ELSE IF DurationTooLong(r.d)
    THEN Threw(VideoProcessingError(<<"Video length exceeds 5 minutes limit">>,
                                    "DURATION_TOO_LONG"))
    ELSE Returned(r.d)

validateDuration ==
    /\ pc = "ReadingDuration"
    /\ \E r \in env.durations :
        LET res == validateDurationTry(r) IN
        /\ reported' = r
        /\ duration' = IF r.kind = "value" THEN r.d ELSE duration
        /\ IF res.ok
           THEN pc' = "PreparingOutput" /\ UNCHANGED <<error, thrown, rejection>>
           ELSE Fail(validateDurationCatch(res.error))
    /\ UNCHANGED <<env, video, perms, extractCalls, driver,
                   sourceFolder, framesDir, gridDir, config, frameCount,
                   frameFiles, inflight, startFrames, startGrid, settleOrder, lastDone, prevDone>>
    /\ planUnchanged

(***************************************************************************)
(* extractFrames                                                           *)
(***************************************************************************)
\* no unlink is issued
PurgeNothing(d, dir) == {}

\* the purge of one folder also unlinks what content/grid holds
PurgeOpsBothFolders(d, dir) ==
    {UnlinkOp(d, n) : n \in Names(dir)} \cup {UnlinkOp("grid", n) : n \in Names(gridDir)}

\* files.map(file => fs.unlink(path.join(folder, file)))
PurgeOps(d, dir) == {UnlinkOp(d, n) : n \in Names(dir)}

\* access / mkdir / readdir, then one unlink per file, all issued at once
prepareOutputFolder ==
    /\ pc = "PreparingOutput"
    /\ \E mkdirOk \in Outcomes, readdirOk \in Outcomes :
        IF (~ framesDir.exists /\ ~ mkdirOk) \/ ~ readdirOk
        THEN Fail(Error("EACCES: permission denied")) /\ UNCHANGED <<framesDir, inflight>>
        ELSE /\ framesDir' = [framesDir EXCEPT !.exists = TRUE]
             /\ inflight' = PurgeOps("frames", framesDir)
             /\ pc' = "PurgingFrames"
             /\ UNCHANGED <<error, thrown, rejection>>
    /\ UNCHANGED <<env, video, perms, reported, extractCalls, driver,
                   sourceFolder, gridDir, duration, config, frameCount,
                   frameFiles, startFrames, startGrid, settleOrder, lastDone, prevDone>>
    /\ planUnchanged

\* one fs.unlink settles; a rejection rejects the Promise.all that awaits it
unlinkSettles ==
    /\ \E op \in inflight :
       \E ok \in WriteOutcomes(op.dir) :
        /\ op.kind = "unlink"
        /\ MaySettle(op)
        /\ inflight' = inflight \ {op}
        \* fs.unlink rejects with ENOENT when the file is no longer there
        /\ IF ok /\ op.name \in Names(IF op.dir = "frames" THEN framesDir ELSE gridDir)
           THEN /\ framesDir' = IF op.dir = "frames" THEN RemoveFile(framesDir, op.name)
                                ELSE framesDir
                /\ gridDir' = IF op.dir = "grid" THEN RemoveFile(gridDir, op.name)
                              ELSE gridDir
                /\ UNCHANGED <<pc, error, thrown, rejection>>
           ELSE /\ UNCHANGED <<framesDir, gridDir>>
                /\ IF pc \in {"PurgingFrames", "PurgingGrids"}
                   THEN Fail(Error("EACCES: permission denied, unlink"))
                   ELSE UNCHANGED <<pc, error, thrown, rejection>>
    /\ UNCHANGED <<env, video, perms, reported, extractCalls, driver,
                   sourceFolder, duration, config, frameCount,
                   frameFiles, startFrames, startGrid, settleOrder, lastDone, prevDone>>
    /\ planUnchanged

\* what a successful ffmpeg run leaves at the output path
FrameFile(t) == [t |-> t, fresh |-> TRUE]

\* the interior extractions that Array.from({length: frameCount - 2}, ...) issues
MiddleOps(D, fc) ==
    {ExtractOp(PadStart3(i + 1), MiddleTimestamp(D, fc, i)) : i \in 0 .. (fc - 3)}

\* one call extractFrame(videoPath, t, frame_<n>.jpg) and what became of it
Call(n, t, st) == [name |-> n, t |-> t, state |-> st]
Settle(calls, n, st) ==
    [k \in DOMAIN calls |->
        IF calls[k].name = n /\ calls[k].state = "pending"
        THEN Call(n, calls[k].t, st)
        ELSE calls[k]]
\* the interior calls in the order Array.from makes them
MiddleCalls(D, fc) ==
    [k \in 1 .. (fc - 2) |-> Call(PadStart3(k), MiddleTimestamp(D, fc, k - 1), "pending")]

\* the calls extractFrames makes on a video of D cs when none of them fails: the
\* first frame, the interior frames, the last frame
ExtractCallsOf(D) ==
    LET fc == FrameCountOf(D, getFrameConfig(Minutes(D)))
        calls == <<Call(PadStart3(0), FirstTimestamp, "ok")>>
                     \o MiddleCalls(D, fc)
                     \o <<Call(PadStart3(fc - 1), LastTimestamp(D), "ok")>>
    IN [k \in DOMAIN calls |-> Call(calls[k].name, calls[k].t, "ok")]

\* what execAsync rejects with when ffmpeg exits with an error
FFmpegFailed == Error("Command failed: ffmpeg")

\* the purge is not awaited: frame_000 is extracted while unlinks are in flight
extractFirstFrameEarly ==
    /\ pc = "PurgingFrames"
    /\ LET cfg == getFrameConfig(Minutes(duration))
           fc == FrameCountOf(duration, cfg)
           firstFramePath == PadStart3(0)
       IN /\ config' = cfg
          /\ frameCount' = fc
          /\ \E ok \in WriteOutcomes("frames") :
              IF ok
              THEN /\ framesDir' = WriteFile(framesDir, firstFramePath, FrameFile(FirstTimestamp))
                   /\ frameFiles' = Append(frameFiles, firstFramePath)
                   /\ inflight' = inflight \cup MiddleOps(duration, fc)
                   /\ extractCalls' = <<Call(firstFramePath, FirstTimestamp, "ok")>>
                                          \o MiddleCalls(duration, fc)
                   /\ pc' = "ExtractingMiddle"
                   /\ UNCHANGED <<error, thrown, rejection>>
              ELSE /\ Fail(FFmpegFailed)
                   /\ extractCalls' = <<Call(firstFramePath, FirstTimestamp, "failed")>>
                   /\ UNCHANGED <<framesDir, frameFiles, inflight>>
    /\ UNCHANGED <<env, video, perms, reported, driver,
                   sourceFolder, gridDir, duration, startFrames, startGrid, settleOrder,
                   lastDone, prevDone>>
    /\ planUnchanged

\* the purge is over: the plan is computed, frame_000 is extracted and awaited,
\* then every interior extraction is issued
extractFirstFrame ==
    /\ pc = "PurgingFrames"
    /\ inflight = {}
    /\ LET cfg == getFrameConfig(Minutes(duration))
           fc == FrameCountOf(duration, cfg)
           firstFramePath == PadStart3(0)
       IN /\ config' = cfg
          /\ frameCount' = fc
          /\ \E ok \in WriteOutcomes("frames") :
              IF ok
              THEN /\ framesDir' = WriteFile(framesDir, firstFramePath, FrameFile(FirstTimestamp))
                   /\ frameFiles' = Append(frameFiles, firstFramePath)
                   /\ inflight' = MiddleOps(duration, fc)
                   /\ extractCalls' = <<Call(firstFramePath, FirstTimestamp, "ok")>>
                                          \o MiddleCalls(duration, fc)
                   /\ pc' = "ExtractingMiddle"
                   /\ UNCHANGED <<error, thrown, rejection>>
              ELSE /\ Fail(FFmpegFailed)
                   /\ extractCalls' = <<Call(firstFramePath, FirstTimestamp, "failed")>>
                   /\ UNCHANGED <<framesDir, frameFiles, inflight>>
    /\ UNCHANGED <<env, video, perms, reported, driver,
                   sourceFolder, gridDir, duration, startFrames, startGrid, settleOrder,
                   lastDone, prevDone>>
    /\ planUnchanged

\* one interior extractFrame settles; its callback pushes the path on success
extractSettles ==
    /\ \E op \in inflight :
       \E ok \in WriteOutcomes(op.dir) :
        /\ op.kind = "extract"
        /\ MaySettle(op)
        /\ inflight' = inflight \ {op}
        /\ extractCalls' = Settle(extractCalls, op.name, IF ok THEN "ok" ELSE "failed")
        /\ IF ok
           THEN /\ framesDir' = WriteFile(framesDir, op.name, FrameFile(op.t))
                /\ frameFiles' = IF pc = "ExtractingMiddle" THEN Append(frameFiles, op.name)
                                 ELSE frameFiles
                /\ settleOrder' = IF pc = "ExtractingMiddle" THEN Append(settleOrder, op.name)
                                  ELSE settleOrder
                /\ UNCHANGED <<pc, error, thrown, rejection>>
           ELSE /\ UNCHANGED <<framesDir, frameFiles, settleOrder>>
                /\ IF pc = "ExtractingMiddle"
                   THEN Fail(FFmpegFailed)
                   ELSE UNCHANGED <<pc, error, thrown, rejection>>
    /\ UNCHANGED <<env, video, perms, reported, driver,
                   sourceFolder, gridDir, duration, config, frameCount,
                   startFrames, startGrid, lastDone, prevDone>>
    /\ planUnchanged

\* frameFiles.sort() is skipped
ReturnedFramesUnsorted(files) == files

\* return frameFiles.sort()
ReturnedFrames(files) == SortNames(files)

\* every interior extraction succeeded: the last frame is extracted and awaited,
\* the sorted list is returned and createGrids is entered
extractLastFrame ==
    /\ pc = "ExtractingMiddle"
    /\ inflight = {}
    /\ LET lastFramePath == PadStart3(frameCount - 1) IN
       \E ok \in WriteOutcomes("frames") :
          IF ok
          THEN /\ framesDir' = WriteFile(framesDir, lastFramePath,
                                         FrameFile(LastTimestamp(duration)))
               /\ frameFiles' = ReturnedFrames(Append(frameFiles, lastFramePath))
               /\ extractCalls' = Append(extractCalls,
                                         Call(lastFramePath, LastTimestamp(duration), "ok"))
               /\ pc' = "PreparingGrid"
               /\ UNCHANGED <<error, thrown, rejection>>
          ELSE /\ Fail(FFmpegFailed)
               /\ extractCalls' = Append(extractCalls,
                                         Call(lastFramePath, LastTimestamp(duration), "failed"))
               /\ UNCHANGED <<framesDir, frameFiles>>
    /\ UNCHANGED <<env, video, perms, reported, driver,
                   sourceFolder, gridDir, duration, config, frameCount, inflight,
                   startFrames, startGrid, settleOrder, lastDone, prevDone>>
    /\ planUnchanged

(***************************************************************************)
(* createGrids / createGrid                                                *)
(***************************************************************************)
\* access / mkdir / readdir of the grid folder, then one unlink per file
prepareGridFolder ==
    /\ pc = "PreparingGrid"
    /\ \E mkdirOk \in Outcomes, readdirOk \in Outcomes :
        IF (~ gridDir.exists /\ ~ mkdirOk) \/ ~ readdirOk
        THEN Fail(Error("EACCES: permission denied")) /\ UNCHANGED <<gridDir, inflight>>
        ELSE /\ gridDir' = [gridDir EXCEPT !.exists = TRUE]
             /\ inflight' = PurgeOps("grid", gridDir)
             /\ pc' = "PurgingGrids"
             /\ UNCHANGED <<error, thrown, rejection>>
    /\ UNCHANGED <<env, video, perms, reported, extractCalls, driver,
                   sourceFolder, framesDir, duration, config, frameCount,
                   frameFiles, startFrames, startGrid, settleOrder, lastDone, prevDone>>
    /\ planUnchanged

\* a chunk size of 3 instead of 4
GridChunksOfThree(files) ==
    [i \in 0 .. (CeilDiv(Len(files), 3) - 1) |-> Slice(files, i * 3, (i + 1) * 3)]

\* numGrids = Math.ceil(frameFiles.length / 4); chunk i = frameFiles.slice(i * 4, (i + 1) * 4)
GridChunks(files) ==
    [i \in 0 .. (CeilDiv(Len(files), 4) - 1) |-> Slice(files, i * 4, (i + 1) * 4)]

\* the createGrid calls are issued while unlinks of the grid purge are in flight
issueGridsEarly ==
    /\ pc = "PurgingGrids"
    /\ LET chunks == GridChunks(frameFiles) IN
       inflight' = inflight \cup {GridOp(PadStart3(i), chunks[i]) : i \in DOMAIN chunks}
    /\ pc' = "ComposingGrids"
    /\ UNCHANGED <<env, video, perms, reported, extractCalls, driver,
                   error, thrown, rejection, sourceFolder, framesDir, gridDir, duration, config,
                   frameCount, frameFiles, startFrames, startGrid, settleOrder, lastDone, prevDone>>
    /\ planUnchanged

\* the grid purge is over: every createGrid is issued at once
issueGrids ==
    /\ pc = "PurgingGrids"
    /\ inflight = {}
    /\ LET chunks == GridChunks(frameFiles) IN
       inflight' = {GridOp(PadStart3(i), chunks[i]) : i \in DOMAIN chunks}
    /\ pc' = "ComposingGrids"
    /\ UNCHANGED <<env, video, perms, reported, extractCalls, driver,
                   error, thrown, rejection, sourceFolder, framesDir, gridDir, duration, config,
                   frameCount, frameFiles, startFrames, startGrid, settleOrder, lastDone, prevDone>>
    /\ planUnchanged

\* what createGrid writes: the overlays of frameFiles.slice(0, 4), in order
GridFile(fs) == [frames |-> Slice(fs, 0, 4), fresh |-> TRUE]

\* one createGrid settles: sharp reads every frame of the chunk and writes the grid
gridSettles ==
    /\ \E op \in inflight, ok \in Outcomes :
        /\ op.kind = "grid"
        /\ MaySettle(op)
        /\ inflight' = inflight \ {op}
        /\ IF Len(op.frames) = 0
           THEN UNCHANGED <<gridDir, pc, error, thrown, rejection>>
           ELSE IF ok /\ \A k \in 1 .. Len(op.frames) : op.frames[k] \in Names(framesDir)
           THEN /\ gridDir' = WriteFile(gridDir, op.name, GridFile(op.frames))
                /\ UNCHANGED <<pc, error, thrown, rejection>>
           ELSE /\ UNCHANGED gridDir
                /\ IF pc = "ComposingGrids"
                   THEN Fail(Error("Input file is missing"))
                   ELSE UNCHANGED <<pc, error, thrown, rejection>>
    /\ UNCHANGED <<env, video, perms, reported, extractCalls, driver,
                   sourceFolder, framesDir, duration, config, frameCount,
                   frameFiles, startFrames, startGrid, settleOrder, lastDone, prevDone>>
    /\ planUnchanged

\* process() resolves without awaiting the compositions
finishWithoutWaiting ==
    /\ pc = "ComposingGrids"
    /\ pc' = "Done"
    /\ lastDone' = [d |-> duration,
                    frames |-> Cardinality(Names(framesDir)),
                    grids |-> Cardinality(Names(gridDir))]
    /\ prevDone' = lastDone
    /\ UNCHANGED <<env, video, perms, reported, extractCalls, driver,
                   error, thrown, rejection, sourceFolder, framesDir, gridDir, duration, config,
                   frameCount, frameFiles, inflight, startFrames, startGrid, settleOrder>>
    /\ planUnchanged

\* every grid is composed: logDurationCategory, and process() resolves
finish ==
    /\ pc = "ComposingGrids"
    /\ inflight = {}
    /\ pc' = "Done"
    /\ lastDone' = [d |-> duration,
                    frames |-> Cardinality(Names(framesDir)),
                    grids |-> Cardinality(Names(gridDir))]
    /\ prevDone' = lastDone
    /\ UNCHANGED <<env, video, perms, reported, extractCalls, driver,
                   error, thrown, rejection, sourceFolder, framesDir, gridDir, duration, config,
                   frameCount, frameFiles, inflight, startFrames, startGrid, settleOrder>>
    /\ planUnchanged

Next ==
    \/ StartProcess
    \/ validateFFmpeg
    \/ validateFolderPermissions
    \/ findVideo
    \/ validateDuration
    \/ prepareOutputFolder
    \/ unlinkSettles
    \/ extractFirstFrame
    \/ extractSettles
    \/ extractLastFrame
    \/ prepareGridFolder
    \/ issueGrids
    \/ gridSettles
    \/ finish

Spec == Init /\ [][Next]_vars

\* the same program with a decoder and a filesystem that never fail
InitScenario ==
    /\ Constructed(ScenarioEnv, Dir(FALSE, NoFiles), Dir(FALSE, NoFiles))
    /\ PlannerOff
    /\ DriverOff

SpecScenario == InitScenario /\ [][Next]_vars

\* the same program on videos at the limits of validateDuration
InitLimits ==
    /\ Constructed(LimitEnv, Dir(FALSE, NoFiles), Dir(FALSE, NoFiles))
    /\ PlannerOff
    /\ DriverOff

SpecLimits == InitLimits /\ [][Next]_vars

(***************************************************************************)
(* The script of src/src/test.ts: extractVideoFrames().                    *)
(* driver.ran lists the stages it has invoked, driver.results how the      *)
(* settled ones ended; analyzer.process() and display() are external here. *)
(***************************************************************************)
InitDriver ==
    /\ \/ Constructed(FaultyEnv, Dir(FALSE, NoFiles), Dir(FALSE, NoFiles))
       \/ Constructed(FaultyEnv, LeftoverFrames, LeftoverGrids)
    /\ PlannerOff
    /\ driver = [NoDriver EXCEPT !.pc = "start"]

\* the script awaits stage, which has just been invoked
Awaiting(stage) == [driver EXCEPT !.pc = stage, !.ran = Append(@, stage)]
\* the awaited stage resolved
Resolved == [driver EXCEPT !.results = Append(@, "ok")]
\* the awaited stage rejected: the catch block logs the error and calls process.exit(1)
driverCatch ==
    [driver EXCEPT !.pc = "exited", !.results = Append(@, "failed"), !.exitCode = 1]

\* await extractor.process()
callExtractor ==
    /\ driver.pc = "start"
    /\ beginProcess
    /\ driver' = Awaiting("extractor")

\* the rejection of extractor.process() is not caught: the analyzer runs anyway
extractorSettlesUncaught ==
    /\ driver.pc = "extractor"
    /\ pc \in {"Done", "Failed"}
    /\ driver' = [driver EXCEPT !.pc = "analyzer", !.ran = Append(@, "analyzer"),
                                !.results = Append(@, IF pc = "Done" THEN "ok" ELSE "failed")]
    /\ extractorUnchanged
    /\ planUnchanged

\* extractor.process() settles; resolved: const analysis = await analyzer.process()
extractorSettles ==
    /\ driver.pc = "extractor"
    /\ pc \in {"Done", "Failed"}
    /\ driver' = IF pc = "Done"
                 THEN [Resolved EXCEPT !.pc = "analyzer", !.ran = Append(@, "analyzer")]
                 ELSE driverCatch
    /\ extractorUnchanged
    /\ planUnchanged

\* analyzer.process() settles; resolved: new TaskAnalysisDisplay(analysis).display()
analyzerSettles ==
    /\ driver.pc = "analyzer"
    /\ \E ok \in Outcomes :
        driver' = IF ok
                  THEN [Resolved EXCEPT !.pc = "display", !.ran = Append(@, "display")]
                  ELSE driverCatch
    /\ extractorUnchanged
    /\ planUnchanged

\* display() settles; resolved: the configuration is logged and the script returns
displaySettles ==
    /\ driver.pc = "display"
    /\ \E ok \in Outcomes :
        driver' = IF ok THEN [Resolved EXCEPT !.pc = "returned"] ELSE driverCatch
    /\ extractorUnchanged
    /\ planUnchanged

NextDriver ==
    \/ callExtractor
    \/ validateFFmpeg
    \/ validateFolderPermissions
    \/ findVideo
    \/ validateDuration
    \/ prepareOutputFolder
    \/ unlinkSettles
    \/ extractFirstFrame
    \/ extractSettles
    \/ extractLastFrame
    \/ prepareGridFolder
    \/ issueGrids
    \/ gridSettles
    \/ finish
    \/ extractorSettles
    \/ analyzerSettles
    \/ displaySettles

SpecDriver == InitDriver /\ [][NextDriver]_vars

(***************************************************************************)
(* Planner harness: getFrameConfig applied to every duration                *)
(* validateDuration accepts, at a resolution of 1 cs.                      *)
(***************************************************************************)
pipeUnchanged == UNCHANGED pipeVars

InitPlan ==
    /\ Constructed(ScenarioEnv, Dir(FALSE, NoFiles), Dir(FALSE, NoFiles))
    /\ DriverOff
    /\ planD \in 1 .. MaxPlanDuration
    /\ planLower = 0
    /\ planPc = "input"
    /\ planConfig = NoConfig
    /\ planLowerConfig = NoConfig
    /\ planCalls = <<>>
    /\ HarnessOff

\* extractFrames' call getFrameConfig(durationInSeconds / 60), reached only with an
\* accepted duration
classify ==
    /\ planPc = "input"
    /\ DurationAccepted(planD)
    /\ planConfig' = getFrameConfig(Minutes(planD))
    /\ planCalls' = ExtractCallsOf(planD)
    /\ planPc' = "planned"
    /\ UNCHANGED <<planD, planLower, planLowerConfig>>
    /\ UNCHANGED harnessVars
    /\ pipeUnchanged

\* the next video is longer
lengthen ==
    /\ planPc = "planned"
    /\ planD' \in {planD + 1, 5 * 6000}
    /\ planD' > planD
    /\ planLower' = planD
    /\ planLowerConfig' = planConfig
    /\ planPc' = "input"
    /\ UNCHANGED <<planConfig, planCalls>>
    /\ UNCHANGED harnessVars
    /\ pipeUnchanged

NextPlan == classify \/ lengthen

SpecPlan == InitPlan /\ [][NextPlan]_vars

(***************************************************************************)
(* Properties.                                                             *)
(***************************************************************************)
\* extractFrames has returned its list
Extracted == pc \in {"PreparingGrid", "PurgingGrids", "ComposingGrids", "Done"}

\* the elements of a sequence
Range(s) == {s[k] : k \in 1 .. Len(s)}

\* the timestamp the file frame_<n> was extracted at
ExtractedAt(n) == framesDir.files[n].t

\* C1: a run that reaches Done returned, and left in content/frames, exactly
\* min(floor(d / interval) + 1, maxFrames) frames, (interval, maxFrames) being the
\* plan of getFrameConfig(d / 60).
C1_FrameCountIsPlanned ==
    pc = "Done" =>
        LET plan == getFrameConfig(Minutes(duration))
            planned == Min((duration \div (plan.interval * 100)) + 1, plan.maxFrames)
        IN /\ Len(frameFiles) = planned
           /\ Cardinality(Names(framesDir)) = planned

\* C2 as written: the 90 s video gets the plan (3, 20), 20 frames from t = 0 to
\* t = 89.9 and the grids grid_000 .. grid_004.
C2_NinetySecondsAsWritten ==
    (pc = "Done" /\ duration = 9000) =>
        /\ config = [interval |-> 3, maxFrames |-> 20]
        /\ frameCount = 20
        /\ Len(frameFiles) = 20
        /\ Names(framesDir) = {PadStart3(i) : i \in 0 .. 19}
        /\ RatEq(ExtractedAt(PadStart3(0)), Rat(0, 1))
        /\ RatEq(ExtractedAt(PadStart3(19)), Rat(8990, 1))
        /\ Names(gridDir) = {PadStart3(i) : i \in 0 .. 4}

\* C2 amended: the 90 s video gets the plan (4, 28), so frameCount =
\* min(floor(90 / 4) + 1, 28) = 23; 23 frames are extracted, the first at t = 0 and
\* the last at t = 89.9, and exactly the 6 grids grid_000 .. grid_005 are produced.
C2_NinetySeconds ==
    (pc = "Done" /\ duration = 9000) =>
        /\ config = [interval |-> 4, maxFrames |-> 28]
        /\ frameCount = 23
        /\ Len(frameFiles) = 23
        /\ Names(framesDir) = {PadStart3(i) : i \in 0 .. 22}
        /\ RatEq(ExtractedAt(PadStart3(0)), Rat(0, 1))
        /\ RatEq(ExtractedAt(PadStart3(22)), Rat(8990, 1))
        /\ Names(gridDir) = {PadStart3(i) : i \in 0 .. 5}

C2_Witness ==
    /\ pc = "Done"
    /\ duration = 9000
    /\ Cardinality(FreshNames(gridDir)) = 6

\* C3: whatever order the interior extractions settle in, the list extractFrames
\* returns is sorted by file name, and reading it in that order yields strictly
\* ascending timestamps.
C3_ReturnedListAscending ==
    Extracted =>
        \A p, q \in 1 .. Len(frameFiles) :
            p < q =>
                /\ ~ StrLess(frameFiles[q], frameFiles[p])
                /\ RatLess(ExtractedAt(frameFiles[p]), ExtractedAt(frameFiles[q]))

\* What does hold in every settle order: the returned list is sorted by file
\* name, and of two frames with different names the one with the smaller name was
\* extracted at the strictly earlier timestamp.
DistinctFramesAscending ==
    Extracted =>
        \A p, q \in 1 .. Len(frameFiles) :
            p < q =>
                /\ ~ StrLess(frameFiles[q], frameFiles[p])
                /\ StrLess(frameFiles[p], frameFiles[q]) =>
                       RatLess(ExtractedAt(frameFiles[p]), ExtractedAt(frameFiles[q]))

\* three interior extractions settled in descending order, and the list was returned
SettledDescending ==
    /\ Extracted
    /\ settleOrder = <<PadStart3(3), PadStart3(2), PadStart3(1)>>
    /\ Len(frameFiles) = 5

\* C4: for a frame list of length N >= 1, ceil(N / 4) grids are composed, every
\* batch but the last holds 4 frames and the last holds N mod 4 frames (4 when 4
\* divides N); a last batch of 1..3 frames is composed and written like the others.
C4_GridBatches ==
    (pc = "Done" /\ Len(frameFiles) >= 1) =>
        LET N == Len(frameFiles)
            G == Cardinality(Names(gridDir))
        IN /\ 4 * G >= N
           /\ 4 * (G - 1) < N
           /\ \A i \in 0 .. (G - 1) :
               /\ PadStart3(i) \in Names(gridDir)
               /\ Len(gridDir.files[PadStart3(i)].frames)
                      = IF i < G - 1 \/ N % 4 = 0 THEN 4 ELSE N % 4

\* five frames: a full batch and a last batch of one frame
C4_Witness ==
    /\ pc = "Done"
    /\ Len(frameFiles) = 5
    /\ Len(gridDir.files[PadStart3(1)].frames) = 1

\* C5: at Done, whatever the two directories held before the run, content/frames
\* holds exactly the frame files this run wrote and content/grid exactly its grid
\* files, none of them left by an earlier run; and a run on the same duration as
\* the run before it produces the same number of frames and of grids.
C5_PurgeInvariant ==
    pc = "Done" =>
        /\ Names(framesDir) = Range(frameFiles)
        /\ FreshNames(framesDir) = Names(framesDir)
        /\ FreshNames(gridDir) = Names(gridDir)
        /\ \A n \in Names(gridDir) : Range(gridDir.files[n].frames) \subseteq Range(frameFiles)
        /\ (prevDone # NoRun /\ prevDone.d = lastDone.d) =>
               /\ prevDone.frames = lastDone.frames
               /\ prevDone.grids = lastDone.grids

\* a 3 s run right after a 9 s run: frame_002 .. frame_004 and grid_001 were stale
C5_Witness ==
    /\ pc = "Done"
    /\ duration = 300
    /\ PadStart3(4) \in startFrames
    /\ PadStart3(1) \in startGrid
    /\ PadStart3(39) \notin Names(framesDir)

\* the same 9 s video twice in a row
C5_WitnessTwice ==
    /\ pc = "Done"
    /\ prevDone # NoRun
    /\ prevDone.d = lastDone.d
    /\ lastDone.d = 900

\* C6: a 301 s video is rejected with DURATION_TOO_LONG before any extraction is
\* issued, and nothing in content/frames or content/grid was created, deleted or
\* written since process() was called.
C6_TooLongRejectedUntouched ==
    duration = 30100 =>
        /\ pc = "Failed"
        /\ error = "DURATION_TOO_LONG"
        /\ inflight = {}
        /\ frameFiles = <<>>
        /\ Names(framesDir) = startFrames
        /\ Names(gridDir) = startGrid
        /\ FreshNames(framesDir) = {}
        /\ FreshNames(gridDir) = {}

\* the rejection, with files of an earlier run still in both directories
C6_Witness ==
    /\ duration = 30100
    /\ error = "DURATION_TOO_LONG"
    /\ Names(framesDir) # {}
    /\ Names(gridDir) # {}

\* the files of content/automate with a supported extension, in any letter case
Candidates ==
    {f \in sourceFolder : f.ext \in {".mp4", ".mov", ".avi", ".mkv", ".wmv",
                                     ".MP4", ".MOV", ".AVI", ".MKV", ".WMV"}}
\* failures of the stages before the folder is listed, or of listing it
EnvironmentErrors == {"FFMPEG_NOT_FOUND", "PERMISSION_ERROR", "FILE_ACCESS_ERROR"}
BeforeLocated == {"Idle", "ValidatingFFmpeg", "ValidatingFolders", "LocatingVideo"}

\* C7: with no candidate video the run is rejected with NO_VIDEO_FOUND, with two
\* or more with MULTIPLE_VIDEOS, and in both cases no file of content/frames or
\* content/grid has been deleted (no unlink was even issued).
C7_SelectionFailsFast ==
    /\ (pc \notin BeforeLocated /\ Cardinality(Candidates) = 0) =>
           pc = "Failed" /\ error \in EnvironmentErrors \cup {"NO_VIDEO_FOUND"}
    /\ (pc \notin BeforeLocated /\ Cardinality(Candidates) >= 2) =>
           pc = "Failed" /\ error \in EnvironmentErrors \cup {"MULTIPLE_VIDEOS"}
    /\ error = "NO_VIDEO_FOUND" => Cardinality(Candidates) = 0
    /\ error = "MULTIPLE_VIDEOS" => Cardinality(Candidates) >= 2
    /\ error \in {"NO_VIDEO_FOUND", "MULTIPLE_VIDEOS"} =>
           /\ pc = "Failed"
           /\ inflight = {}
           /\ Names(framesDir) = startFrames
           /\ Names(gridDir) = startGrid

\* two candidates, rejected with the stale files of both directories in place
C7_Witness ==
    /\ error = "MULTIPLE_VIDEOS"
    /\ Cardinality(Candidates) = 2
    /\ startFrames # {}
    /\ startGrid # {}

\* no candidate
C7_WitnessNone ==
    /\ error = "NO_VIDEO_FOUND"
    /\ sourceFolder # {}
    /\ startFrames # {}

\* C8: for every accepted duration d, getFrameConfig(d / 60) is the row of the
\* step table: (2, 16) up to 30 s, (3, 20) up to 60 s, (4, 28) up to 120 s,
\* (5, 32) up to 180 s, (6, 36) up to 240 s, (7, 40) above; a boundary value
\* belongs to the lower bucket.  (Durations in cs.)
C8_StepTable ==
    planPc = "planned" =>
        /\ planD > 0
        /\ planD <= 30000
        /\ planConfig =
              IF planD <= 3000 THEN [interval |-> 2, maxFrames |-> 16]
              ELSE IF planD <= 6000 THEN [interval |-> 3, maxFrames |-> 20]
              ELSE IF planD <= 12000 THEN [interval |-> 4, maxFrames |-> 28]
              ELSE IF planD <= 18000 THEN [interval |-> 5, maxFrames |-> 32]
              ELSE IF planD <= 24000 THEN [interval |-> 6, maxFrames |-> 36]
              ELSE [interval |-> 7, maxFrames |-> 40]

\* a boundary value, classified into the lower bucket
C8_Witness ==
    /\ planPc = "planned"
    /\ planD = 12000
    /\ planConfig = [interval |-> 4, maxFrames |-> 28]

\* C9: for accepted durations d1 <= d2, the plan of d1 has an interval and a
\* maxFrames no larger than those of the plan of d2.
C9_PlanMonotone ==
    (planPc = "planned" /\ planLower > 0) =>
        /\ planLower <= planD
        /\ planLowerConfig = getFrameConfig(Minutes(planLower))
        /\ planLowerConfig.interval <= planConfig.interval
        /\ planLowerConfig.maxFrames <= planConfig.maxFrames

\* two durations on the two sides of the 60 s boundary
C9_Witness ==
    /\ planPc = "planned"
    /\ planLower = 6000
    /\ planD = 6001
    /\ planLowerConfig.interval < planConfig.interval

\* the steps of process(), in program order
Steps ==
    <<"ValidatingFFmpeg", "ValidatingFolders", "LocatingVideo", "ReadingDuration",
      "PreparingOutput", "PurgingFrames", "ExtractingMiddle",
      "PreparingGrid", "PurgingGrids", "ComposingGrids", "Done">>
StepIndex(p) == CHOOSE i \in 1 .. Len(Steps) : Steps[i] = p
Terminal == {"Idle", "Done", "Failed"}

\* the stage of the pipeline a step belongs to
Stage(p) ==
    IF p \in {"ValidatingFFmpeg", "ValidatingFolders"} THEN "ValidatingEnvironment"
    ELSE IF p \in {"PreparingOutput", "PurgingFrames", "ExtractingMiddle"} THEN "ExtractingFrames"
    ELSE IF p \in {"PreparingGrid", "PurgingGrids", "ComposingGrids"} THEN "ComposingGrids"
    ELSE p
Stages ==
    <<"ValidatingEnvironment", "LocatingVideo", "ReadingDuration", "ExtractingFrames",
      "ComposingGrids", "Done">>
StageIndex(g) == CHOOSE i \in 1 .. Len(Stages) : Stages[i] = g

\* a step of process() from pc to pc' keeps the order of the stages
InOrder ==
    pc' # pc =>
        \/ pc \in Terminal /\ pc' = "ValidatingFFmpeg"
        \/ pc \notin Terminal /\ pc' = "Failed" /\ error' # "none"
        \/ /\ pc \notin Terminal
           /\ pc' \notin {"Idle", "Failed"}
           /\ error' = "none"
           /\ StepIndex(pc') = StepIndex(pc) + 1
           /\ StageIndex(Stage(pc')) \in {StageIndex(Stage(pc)), StageIndex(Stage(pc)) + 1}

\* at Done every grid has been composed; a failed run has an error code
Settled ==
    /\ pc = "Done" =>
           /\ error = "none"
           /\ inflight = {}
           /\ \A i \in 0 .. (CeilDiv(Len(frameFiles), 4) - 1) : PadStart3(i) \in FreshNames(gridDir)
    /\ pc = "Failed" <=> error # "none"

\* a running stage that still waits for an external call can fail at once
CanFail ==
    (pc \notin Terminal /\ ~ (pc \in {"PurgingGrids", "ComposingGrids"} /\ inflight = {})) =>
        ENABLED (Next /\ pc' = "Failed")

\* C10: process() goes through ValidatingEnvironment (probe, then permissions),
\* LocatingVideo, ReadingDuration, ExtractingFrames, ComposingGrids, Done in this
\* order, one stage starting only when the one before succeeded; every running
\* stage can fail, Failed ends the run, and Done comes only after every grid is
\* composed.
C10_StageOrder == [][InOrder]_vars /\ [](Settled /\ CanFail)

\* a run that failed while composing grids, after one grid was written
C10_Witness ==
    /\ pc = "Failed"
    /\ error = "UNKNOWN_ERROR"
    /\ FreshNames(gridDir) # {}
    /\ Len(frameFiles) = 5

\* the codes a VideoProcessingError of this class can carry
ErrorCodes ==
    {"FFMPEG_NOT_FOUND", "PERMISSION_ERROR", "NO_VIDEO_FOUND", "MULTIPLE_VIDEOS",
     "EMPTY_FILE", "FILE_ACCESS_ERROR", "INVALID_DURATION", "DURATION_TOO_LONG",
     "DURATION_READ_ERROR", "UNKNOWN_ERROR"}

\* message ends with the message of cause
KeepsMessage(message, cause) ==
    /\ Len(message) >= Len(cause)
    /\ SubSeq(message, Len(message) - Len(cause) + 1, Len(message)) = cause

\* what process() rejected with, against what its catch block caught
TypedRejection ==
    pc = "Failed" =>
        /\ rejection.typed
        /\ rejection.code = error
        /\ error \in ErrorCodes
        /\ thrown.typed => rejection = thrown
        /\ ~ thrown.typed =>
               /\ error = "UNKNOWN_ERROR"
               /\ thrown.message # <<>>
               /\ KeepsMessage(rejection.message, thrown.message)

\* a sub-operation that fails after process() rejected changes nothing of the
\* rejection
FirstErrorKept ==
    (pc = "Failed" /\ pc' = "Failed") =>
        /\ error' = error
        /\ rejection' = rejection
        /\ thrown' = thrown

\* C11: every rejection of process() is a VideoProcessingError with one code of
\* the fixed set of ten; a typed error caught by process() is rethrown as it is,
\* any other error is wrapped as UNKNOWN_ERROR with its message kept at the end
\* of the new message; and the rejection is the first failure of the run: later
\* failures of sub-operations still in flight do not replace it.
C11_TypedErrors == [][FirstErrorKept]_vars /\ []TypedRejection

\* an interior extraction failed while two others were in flight, and one of
\* those failed after process() had rejected
C11_Witness ==
    /\ pc = "Failed"
    /\ error = "UNKNOWN_ERROR"
    /\ ~ thrown.typed
    /\ Cardinality({k \in DOMAIN extractCalls : extractCalls[k].state = "failed"}) = 2

\* a typed error of an inner stage reached the caller unchanged
C11_WitnessTyped ==
    /\ pc = "Failed"
    /\ error = "EMPTY_FILE"
    /\ rejection = thrown

\* validateFolderPermissions has run in this call of process()
PermissionsChecked ==
    /\ pc \notin {"Idle", "ValidatingFFmpeg", "ValidatingFolders"}
    /\ error # "FFMPEG_NOT_FOUND"

\* C12: once the permission check has run, a source folder that is not readable
\* or a frames folder that exists and is not writable has made the run fail
\* with PERMISSION_ERROR, and that before any video was located; a frames
\* folder that was missing now exists.
C12_PermissionChecks ==
    PermissionsChecked =>
        /\ (~ perms.source \/ ~ perms.frames) => (pc = "Failed" /\ error = "PERMISSION_ERROR")
        /\ error = "PERMISSION_ERROR" => video = NoVideo
        /\ error # "PERMISSION_ERROR" => framesDir.exists

\* findVideo has run in this call of process()
VideoSearched ==
    /\ pc \notin BeforeLocated
    /\ error \notin {"FFMPEG_NOT_FOUND", "PERMISSION_ERROR"}

\* the listing or the stat of the folder was refused
ListingFailed ==
    /\ error = "FILE_ACCESS_ERROR"
    /\ rejection.message[1] = "Error accessing video file: "
    /\ Len(rejection.message) = 2

\* C13: what findVideo answers depends on the content of content/automate only:
\* files without a supported extension (in any letter case) are ignored; unless
\* the listing or the stat is refused (FILE_ACCESS_ERROR), no candidate gives
\* NO_VIDEO_FOUND, two or more give MULTIPLE_VIDEOS even if one of them is empty,
\* a single empty candidate gives EMPTY_FILE, and a single non-empty candidate is
\* the file returned.
C13_FindVideoOutcome ==
    VideoSearched =>
        LET n == Cardinality(Candidates) IN
        /\ error = "FILE_ACCESS_ERROR" => ListingFailed
        /\ ~ ListingFailed =>
            /\ n = 0 <=> error = "NO_VIDEO_FOUND"
            /\ n > 1 <=> error = "MULTIPLE_VIDEOS"
            /\ (n = 1 /\ \A f \in Candidates : f.size = 0) <=> error = "EMPTY_FILE"
            /\ (n = 1 /\ \A f \in Candidates : f.size > 0) <=>
                   (video # NoVideo /\ error \notin {"NO_VIDEO_FOUND", "MULTIPLE_VIDEOS",
                                                     "EMPTY_FILE"})
            /\ video # NoVideo => Candidates = {video}
        /\ error \in {"NO_VIDEO_FOUND", "MULTIPLE_VIDEOS", "EMPTY_FILE", "FILE_ACCESS_ERROR"} =>
               (pc = "Failed" /\ video = NoVideo)

\* the only candidate has an upper-case extension and is empty
C13_Witness ==
    /\ error = "EMPTY_FILE"
    /\ \E f \in sourceFolder : f.ext = ".MOV"
    /\ Cardinality(sourceFolder) = 1

\* a video found next to a file that is no video
C13_WitnessFound ==
    /\ video # NoVideo
    /\ Cardinality(sourceFolder) = 2
    /\ pc = "Done"

\* validateDuration has run in this call of process()
DurationRead == reported # NoReport
\* the decoder reported a number d with 0 < d <= 300 s
InLimits == reported.kind = "value" /\ 0 < reported.d /\ reported.d <= 300 * 100

\* C14: validateDuration accepts exactly the reported numbers d with
\* 0 < d <= 300 s and hands d on unchanged; NaN or d <= 0 gives
\* INVALID_DURATION, d > 300 s gives DURATION_TOO_LONG, a decoder that reports
\* nothing gives DURATION_READ_ERROR; and after a rejection no plan has been
\* computed and no extraction issued.
C14_DurationLimits ==
    DurationRead =>
        /\ InLimits <=>
               error \notin {"INVALID_DURATION", "DURATION_TOO_LONG", "DURATION_READ_ERROR"}
        /\ InLimits => duration = reported.d
        /\ (reported.kind = "nan" \/ (reported.kind = "value" /\ reported.d <= 0))
               <=> error = "INVALID_DURATION"
        /\ (reported.kind = "value" /\ reported.d > 300 * 100) <=> error = "DURATION_TOO_LONG"
        /\ reported.kind = "error" <=> error = "DURATION_READ_ERROR"
        /\ ~ InLimits =>
               /\ pc = "Failed"
               /\ config = NoConfig
               /\ frameCount = 0
               /\ extractCalls = <<>>
               /\ frameFiles = <<>>
               /\ inflight = {}
               /\ FreshNames(framesDir) = {}

\* a video of exactly 300 s went through: 40 frames, 10 grids
C14_Witness ==
    /\ pc = "Done"
    /\ reported = Value(30000)
    /\ duration = 30000
    /\ Len(frameFiles) = 40
    /\ Cardinality(FreshNames(gridDir)) = 10

\* 300.01 s is rejected
C14_WitnessOver ==
    /\ reported = Value(30001)
    /\ error = "DURATION_TOO_LONG"

\* the calls the pipeline made are the calls the planner harness examines
CallsAsPlanned == Extracted => extractCalls = ExtractCallsOf(duration)

\* C15: for every accepted duration d, each extractFrame call of extractFrames
\* has a timestamp t with 0 <= t < d.
C15_TimestampsInRange ==
    planPc = "planned" =>
        \A k \in DOMAIN planCalls :
            /\ ~ RatLess(planCalls[k].t, Rat(0, 1))
            /\ RatLess(planCalls[k].t, Rat(planD, 1))

\* What holds for every accepted duration: t < d for every call, and t >= 0 for
\* every call but the last one, whose timestamp d - 0.1 is >= 0 from d = 0.1 s on.
TimestampsBelowDuration ==
    planPc = "planned" =>
        \A k \in DOMAIN planCalls :
            /\ RatLess(planCalls[k].t, Rat(planD, 1))
            /\ (k < Len(planCalls) \/ planD >= 10) => ~ RatLess(planCalls[k].t, Rat(0, 1))

\* the calls of the plan that write frame_<n>.jpg
CallsOn(n) == {k \in DOMAIN planCalls : planCalls[k].name = n}

\* C16: for every accepted duration the output names of the extractFrame calls
\* are exactly frame_000 .. frame_<frameCount - 1>, three digits each, and each
\* of these names is the output of exactly one call.
C16_ContiguousIndices ==
    planPc = "planned" =>
        LET fc == FrameCountOf(planD, planConfig) IN
        /\ {planCalls[k].name : k \in DOMAIN planCalls} = {PadStart3(i) : i \in 0 .. (fc - 1)}
        /\ \A k \in DOMAIN planCalls : Len(planCalls[k].name) = 3
        /\ \A i \in 0 .. (fc - 1) : Cardinality(CallsOn(PadStart3(i))) = 1

\* What holds for every accepted duration: the names are exactly frame_000 ..
\* frame_<frameCount - 1>; each is written by one call when d >= 2 s, and
\* frame_000 is written by two calls (t = 0 and t = d - 0.1) when d < 2 s.
IndicesFromTwoSeconds ==
    planPc = "planned" =>
        LET fc == FrameCountOf(planD, planConfig) IN
        /\ {planCalls[k].name : k \in DOMAIN planCalls} = {PadStart3(i) : i \in 0 .. (fc - 1)}
        /\ planD >= 200 => \A i \in 0 .. (fc - 1) : Cardinality(CallsOn(PadStart3(i))) = 1
        /\ planD < 200 => (fc = 1 /\ Cardinality(CallsOn(PadStart3(0))) = 2)

\* the stages of the script in the order it names them
DriverStages == <<"extractor", "analyzer", "display">>

\* C17: the script invokes frame extraction, grid analysis and the display in
\* this order, each at most once and a later one only after every earlier one
\* resolved (the analyzer only with the extractor at Done); a stage that
\* rejects is the last one invoked and the process exits with code 1; the
\* script returns normally only after all three resolved.
C17_DriverSequence ==
    driver.pc # "off" =>
        LET ran == driver.ran
            results == driver.results
        IN /\ Len(ran) <= 3
           /\ ran = SubSeq(DriverStages, 1, Len(ran))
           /\ Len(results) \in {Len(ran) - 1, Len(ran)} \cap (0 .. 3)
           /\ \A k \in DOMAIN results : k < Len(ran) => results[k] = "ok"
           /\ Len(results) >= 1 => (results[1] = "ok" <=> pc = "Done")
           /\ Len(results) >= 1 => (results[1] = "failed" <=> pc = "Failed")
           /\ (\E k \in DOMAIN results : results[k] = "failed")
                  <=> (driver.pc = "exited" /\ driver.exitCode = 1)
           /\ driver.pc = "exited" => Len(results) = Len(ran)
           /\ driver.pc = "returned" <=> results = <<"ok", "ok", "ok">>
           /\ driver.pc # "exited" => driver.exitCode = 0
           /\ driver.pc \in {"extractor", "analyzer", "display"} =>
                  (Len(results) = Len(ran) - 1 /\ ran[Len(ran)] = driver.pc)

\* the extraction failed: exit code 1, and neither analysis nor display ran
C17_Witness ==
    /\ driver.pc = "exited"
    /\ driver.exitCode = 1
    /\ driver.ran = <<"extractor">>
    /\ error = "UNKNOWN_ERROR"

\* the analysis failed after a complete extraction
C17_WitnessAnalyzer ==
    /\ driver.pc = "exited"
    /\ driver.ran = <<"extractor", "analyzer">>
    /\ pc = "Done"

\* all three stages ran
C17_WitnessAll ==
    /\ driver.pc = "returned"
    /\ driver.ran = DriverStages

\* after the step no sub-operation of the run is in flight
StageSettled == inflight' = {}

\* process() leaves its stage in this step
LeavesStage == pc \notin Terminal /\ Stage(pc') # Stage(pc)

\* C18: process() leaves a stage - for the next stage, for Done or for Failed -
\* only when every sub-operation the stage issued (unlink, extractFrame,
\* createGrid) has settled.
C18_StageWaitsForAll == [][LeavesStage => StageSettled]_vars

\* What holds: a stage is left for the next stage or for Done only when all its
\* sub-operations have settled; it is left for Failed at the first rejection,
\* with the other sub-operations possibly still in flight.
StageWaitsUnlessFailed == [][(LeavesStage /\ pc' # "Failed") => StageSettled]_vars

\* process() has rejected and extractions of the run are still in flight
RejectedWithCallsInFlight ==
    /\ pc = "Failed"
    /\ \E op \in inflight : op.kind = "extract"

\* sub-operations of one kind in flight
InFlight(kind) == {op \in inflight : op.kind = kind}

\* the step issues the first extractFrame call of the run: before it, no unlink
\* is in flight and nothing that was in content/frames at the call is left
FramesPurgedFirst ==
    (extractCalls = <<>> /\ extractCalls' # <<>>) =>
        /\ InFlight("unlink") = {}
        /\ Names(framesDir) \cap startFrames = {}

\* the step starts the first grid composition of the run: before it, no unlink
\* is in flight and nothing that was in content/grid at the call is left
GridsPurgedFirst ==
    (InFlight("grid") = {} /\ InFlight("grid")' # {}) =>
        /\ InFlight("unlink") = {}
        /\ Names(gridDir) \cap startGrid = {}

\* no step removes a file this run wrote
FreshKept ==
    /\ FreshNames(framesDir) \subseteq Names(framesDir')
    /\ FreshNames(gridDir) \subseteq Names(gridDir')

\* no deletion is in flight together with an extraction or a composition in
\* the same folder
NoPurgeDuringWrites ==
    \A u \in InFlight("unlink") :
        \A o \in InFlight("extract") \cup InFlight("grid") : u.dir # o.dir

\* C19: every deletion of a file that was in content/frames when process() was
\* called has completed before the first extractFrame call is issued, every
\* deletion of a file that was in content/grid before the first grid
\* composition starts, and no file the current run wrote is deleted by it.
C19_PurgeBeforeWrite ==
    [][FramesPurgedFirst /\ GridsPurgedFirst /\ FreshKept]_vars /\ []NoPurgeDuringWrites

\* grids are being composed in a run that found stale files in both folders
C19_Witness ==
    /\ pc = "ComposingGrids"
    /\ startFrames # {}
    /\ startGrid # {}
    /\ FreshNames(gridDir) # {}
    /\ Names(framesDir) \cap startFrames # {}

\* no two calls of the list have the same timestamp and the same output path
NoCallTwice(calls) ==
    \A j, k \in DOMAIN calls :
        j # k => ~ (calls[j].name = calls[k].name /\ RatEq(calls[j].t, calls[k].t))

\* an extractFrame call of this run was rejected
SomeCallFailed == \E k \in DOMAIN extractCalls : extractCalls[k].state = "failed"

\* a rejected call ends the run: no grid stage, no grid, no Done
FailedCallFailsRun ==
    SomeCallFailed =>
        /\ pc = "Failed"
        /\ error = "UNKNOWN_ERROR"
        /\ InFlight("grid") = {}
        /\ FreshNames(gridDir) = {}
        /\ InFlight("unlink") = {}

\* C20: no extraction is retried - for every accepted duration the
\* (timestamp, output path) pairs of the extractFrame calls are pairwise
\* different - and one rejected extractFrame call makes process() reject: the
\* grid stage is not entered and no grid is composed.
C20_NoRetry ==
    /\ planPc = "planned" => NoCallTwice(planCalls)
    /\ NoCallTwice(extractCalls)
    /\ FailedCallFailsRun

\* What holds: a rejected call fails the run before any grid, and the calls of
\* one run differ in timestamp or path except for a video of exactly 0.1 s,
\* whose first and last frame are both extracted at t = 0 into frame_000.
NoRetryButOneTenth ==
    /\ (planPc = "planned" /\ planD # 10) => NoCallTwice(planCalls)
    /\ NoCallTwice(extractCalls)
    /\ FailedCallFailsRun

(***************************************************************************)
(* Grid contents.                                                          *)
(***************************************************************************)
\* the frames at the sorted positions 4i .. min(4i + 3, N - 1), in order
BatchOf(i) == Slice(frameFiles, 4 * i, 4 * i + 4)
GridIndices == 0 .. (CeilDiv(Len(frameFiles), 4) - 1)

RECURSIVE GridsInOrder(_)
\* the frames of grid_000 .. grid_<g - 1>, one grid after the other
GridsInOrder(g) ==
    IF g = 0 THEN <<>>
    ELSE GridsInOrder(g - 1) \o gridDir.files[PadStart3(g - 1)].frames

\* every grid file this run has written holds its own batch
WrittenGridsHoldBatch ==
    \A n \in FreshNames(gridDir) :
        \E i \in GridIndices : n = PadStart3(i) /\ gridDir.files[n].frames = BatchOf(i)

\* every composition in flight is bound to one index and to the batch of that index
ChunksBoundToIndex ==
    /\ \A op \in InFlight("grid") :
           \E i \in GridIndices : op.name = PadStart3(i) /\ op.frames = BatchOf(i)
    /\ \A o1, o2 \in InFlight("grid") : o1.name = o2.name => o1 = o2
    /\ \A op \in InFlight("grid") : op.name \notin FreshNames(gridDir)

\* C21: whatever the order in which the compositions settle, grid_<i> is composed
\* from exactly the frames at the sorted positions 4i .. min(4i + 3, N - 1) of the
\* returned frame list, in that order; the grids taken in index order give the
\* frame list back (no frame skipped, none in two grids), and no two chunks write
\* the same grid file.
C21_GridContents ==
    /\ WrittenGridsHoldBatch
    /\ ChunksBoundToIndex
    /\ pc = "ComposingGrids" =>
           Cardinality(InFlight("grid")) + Cardinality(FreshNames(gridDir))
               = CeilDiv(Len(frameFiles), 4)
    /\ pc = "Done" =>
           /\ FreshNames(gridDir) = {PadStart3(i) : i \in GridIndices}
           /\ GridsInOrder(CeilDiv(Len(frameFiles), 4)) = frameFiles

\* five frames, and grid_001 was written while grid_000 was still being composed
C21_Witness ==
    /\ pc = "ComposingGrids"
    /\ Len(frameFiles) = 5
    /\ PadStart3(1) \in FreshNames(gridDir)
    /\ \E op \in InFlight("grid") : op.name = PadStart3(0)

\* the run is over with both grids of a five-frame list on disk
C21_WitnessDone ==
    /\ pc = "Done"
    /\ Len(frameFiles) = 5
    /\ gridDir.files[PadStart3(1)].frames = <<PadStart3(4)>>

(***************************************************************************)
(* Layout harness: createGrid applied to one chunk of frames of one size.  *)
(***************************************************************************)
\* the longest chunk handed to createGrid
MaxChunk == 5
\* widths and heights of the extracted frames (the resolution of the video)
FrameWidths == {1, 957, 958, 959, 1920, 3840}
FrameHeights == {1, 537, 538, 539, 1080, 2160}

gridSize == [width |-> 1920, height |-> 1080]
frameWidth == gridSize.width \div 2
frameHeight == gridSize.height \div 2
gap == 2

\* sharp's resize(w, h, {fit: 'fill', withoutEnlargement: true}): each dimension is
\* brought down to the target and never up
Resize(width, height, toWidth, toHeight) ==
    [width |-> Min(width, toWidth), height |-> Min(height, toHeight)]

\* quadrants filled column by column
OverlayAtColumnMajor(index, size) ==
    [top |-> (index % 2) * frameHeight + (gap \div 2),
     left |-> (index \div 2) * frameWidth + (gap \div 2),
     width |-> size.width, height |-> size.height]

\* the overlay of the frame at position index of the chunk
OverlayAt(index, size) ==
    [top |-> (index \div 2) * frameHeight + (gap \div 2),
     left |-> (index % 2) * frameWidth + (gap \div 2),
     width |-> size.width, height |-> size.height]

\* frameFiles.slice(0, 4).map(...): one overlay per frame, at most four
Overlays(frames, width, height) ==
    [j \in 1 .. Min(frames, 4) |->
        OverlayAt(j - 1, Resize(width, height, frameWidth - gap, frameHeight - gap))]

InitLayout ==
    /\ Constructed(ScenarioEnv, Dir(FALSE, NoFiles), Dir(FALSE, NoFiles))
    /\ DriverOff
    /\ planD = 0
    /\ planLower = 0
    /\ planPc = "off"
    /\ planConfig = NoConfig
    /\ planLowerConfig = NoConfig
    /\ planCalls = <<>>
    /\ AnalyzerOff /\ EditorOff /\ CodegenOff /\ OtherOff
    /\ \E n \in 0 .. MaxChunk, w \in FrameWidths, h \in FrameHeights :
           layout = [pc |-> "called", frames |-> n, width |-> w, height |-> h,
                     overlays |-> <<>>]

\* createGrid with no frame returns at once; otherwise the overlays are placed on
\* the canvas and the grid is written
createGrid ==
    /\ layout.pc = "called"
    /\ layout' = IF layout.frames = 0
                 THEN [layout EXCEPT !.pc = "returned"]
                 ELSE [layout EXCEPT !.pc = "written",
                                     !.overlays = Overlays(layout.frames, layout.width,
                                                           layout.height)]
    /\ UNCHANGED <<planVars, analyzer, editor, codegen, other>>
    /\ pipeUnchanged

NextLayout == createGrid

SpecLayout == InitLayout /\ [][NextLayout]_vars

\* the pixel rows and columns an overlay covers
Rows(o) == o.top .. (o.top + o.height - 1)
Columns(o) == o.left .. (o.left + o.width - 1)
Disjoint(o1, o2) == Rows(o1) \cap Rows(o2) = {} \/ Columns(o1) \cap Columns(o2) = {}

\* C22: the frame at batch position j is placed at top = floor(j / 2) * 540 + 1 and
\* left = (j mod 2) * 960 + 1; every overlay is at most 958 x 538, lies inside the
\* 1920 x 1080 canvas, and no two overlays of a grid overlap.
C22_QuadrantGeometry ==
    layout.pc = "written" =>
        LET os == layout.overlays IN
        /\ Len(os) = Min(layout.frames, 4)
        /\ \A k \in 1 .. Len(os) :
            /\ os[k].top = ((k - 1) \div 2) * 540 + 1
            /\ os[k].left = ((k - 1) % 2) * 960 + 1
            /\ os[k].width <= 958 /\ os[k].height <= 538
            /\ os[k].top >= 0 /\ os[k].top + os[k].height <= 1080
            /\ os[k].left >= 0 /\ os[k].left + os[k].width <= 1920
        /\ \A k, l \in 1 .. Len(os) : k # l => Disjoint(os[k], os[l])

\* four frames of a 4K video, each brought down to 958 x 538
C22_Witness ==
    /\ layout.pc = "written"
    /\ layout.width = 3840 /\ layout.height = 2160
    /\ Len(layout.overlays) = 4
    /\ layout.overlays[4] = [top |-> 541, left |-> 961, width |-> 958, height |-> 538]

\* frames smaller than a quadrant are not enlarged
C22_WitnessSmall ==
    /\ layout.pc = "written"
    /\ layout.frames = 3
    /\ layout.overlays[3] = [top |-> 541, left |-> 1, width |-> 1, height |-> 1]

(***************************************************************************)
(* Timestamps by index.                                                    *)
(***************************************************************************)
\* every call of the plan that writes frame_<i>.jpg is made at timestamp t
ExtractedOnlyAt(i, t) == \A k \in CallsOn(PadStart3(i)) : RatEq(planCalls[k].t, t)

\* frame 0 at t = 0, frame frameCount - 1 at t = d - 0.1, and interior frame k at
\* k * (d - 1) / (frameCount - 2)
TimestampsByIndex(fc) ==
    /\ ExtractedOnlyAt(0, Rat(0, 1))
    /\ ExtractedOnlyAt(fc - 1, Rat(planD - 10, 1))
    /\ fc >= 3 =>
        /\ \A i \in 1 .. (fc - 2) : ExtractedOnlyAt(i, Rat(i * (planD - 100), fc - 2))
        \* evenly spaced: from t = 0 on, each interior frame is (d - 1) / (fc - 2)
        \* after the frame before it
        /\ \A i \in 1 .. (fc - 2) : \A k \in CallsOn(PadStart3(i)), j \in CallsOn(PadStart3(i - 1)) :
               RatEq(Rat(planCalls[k].t.num * planCalls[j].t.den
                             - planCalls[j].t.num * planCalls[k].t.den,
                         planCalls[k].t.den * planCalls[j].t.den),
                     Rat(planD - 100, fc - 2))
        /\ ExtractedOnlyAt(fc - 2, Rat(planD - 100, 1))
        /\ \A k \in CallsOn(PadStart3(fc - 2)), l \in CallsOn(PadStart3(fc - 1)) :
               RatLess(planCalls[k].t, planCalls[l].t)

\* C23: for every accepted duration d, frame 0 is extracted at exactly t = 0, the
\* last frame (index frameCount - 1) at exactly t = d - 0.1 and, for
\* frameCount >= 3, interior frame k at t = k * (d - 1) / (frameCount - 2): the
\* interior frames are evenly spaced, the last of them is at d - 1 and precedes
\* the last frame.
C23_TimestampsByIndex ==
    planPc = "planned" => TimestampsByIndex(FrameCountOf(planD, planConfig))

\* What holds for every accepted duration: the timestamps are those of the claim
\* from d = 2 s on and for d = 0.1 s; for any other d < 2 s frame_000 is
\* extracted at t = 0 and again at t = d - 0.1.
TimestampsByIndexFromTwoSeconds ==
    planPc = "planned" =>
        IF planD >= 200 \/ planD = 10
        THEN TimestampsByIndex(FrameCountOf(planD, planConfig))
        ELSE /\ FrameCountOf(planD, planConfig) = 1
             /\ {planCalls[k].t : k \in CallsOn(PadStart3(0))}
                    = {Rat(0, 1), Rat(planD - 10, 1)}

(***************************************************************************)
(* Grids per bucket.                                                       *)
(***************************************************************************)
\* numGrids of createGrids for the list extractFrames returns: one path per call
PlannedGrids == Cardinality(DOMAIN GridChunks(planCalls))

\* C25: a video whose duration is exactly the upper bound of a bucket yields
\* 30 s -> 4 grids, 60 s -> 5, 120 s -> 7, 180 s -> 8, 240 s -> 9, 300 s -> 10;
\* and for every accepted duration the frame count is at most 40 and the grid
\* count at most 10.
C25_GridsPerBucket ==
    planPc = "planned" =>
        /\ planD = 3000 => PlannedGrids = 4
        /\ planD = 6000 => PlannedGrids = 5
        /\ planD = 12000 => PlannedGrids = 7
        /\ planD = 18000 => PlannedGrids = 8
        /\ planD = 24000 => PlannedGrids = 9
        /\ planD = 30000 => PlannedGrids = 10
        /\ FrameCountOf(planD, planConfig) <= 40
        /\ Len(planCalls) <= 40
        /\ PlannedGrids <= 10

\* the longest accepted video: 40 frames in 10 grids
C25_Witness ==
    /\ planPc = "planned"
    /\ planD = 30000
    /\ Len(planCalls) = 40
    /\ PlannedGrids = 10

\* exactly one minute: the (3, 20) plan, capped at 20 frames
C25_WitnessMinute ==
    /\ planPc = "planned"
    /\ planD = 6000
    /\ FrameCountOf(planD, planConfig) = 20
    /\ PlannedGrids = 5

(***************************************************************************)
(* Failures before the grids.                                              *)
(***************************************************************************)
\* extractFrames has returned: every planned extractFrame call was made and succeeded
CreateGridsEntered == frameCount > 0 /\ extractCalls = ExtractCallsOf(duration)

\* CreateGridsEntered tells the position of the run
CreateGridsMarker ==
    /\ pc \in {"PreparingGrid", "PurgingGrids", "ComposingGrids", "Done"} => CreateGridsEntered
    /\ pc \notin {"PreparingGrid", "PurgingGrids", "ComposingGrids", "Done", "Failed"}
           => ~ CreateGridsEntered

\* C26: a run that fails before the grid stage (in validation, video location,
\* duration reading or frame extraction) leaves the grid directory unchanged: the
\* grid files of the previous run are all still present and none was written,
\* even when the frames directory has been purged or partly rewritten.
C26_GridsKeptOnEarlyFailure ==
    (pc = "Failed" /\ ~ CreateGridsEntered) =>
        /\ Names(gridDir) = startGrid
        /\ FreshNames(gridDir) = {}

\* an extraction failed after the purge of the frames and the first new frame;
\* the grid of the run before is still there
C26_Witness ==
    /\ pc = "Failed"
    /\ ~ CreateGridsEntered
    /\ startGrid # {}
    /\ Names(gridDir) = startGrid
    /\ startFrames \ Names(framesDir) # {}
    /\ FreshNames(framesDir) # {}

\* the run failed before it touched either folder
C26_WitnessValidation ==
    /\ pc = "Failed"
    /\ error = "FFMPEG_NOT_FOUND"
    /\ startGrid # {}
    /\ Names(gridDir) = startGrid

(***************************************************************************)
(* Two calls of process() on the same folders.  The variables of the       *)
(* pipeline are those of the call that takes the next step; `other` holds   *)
(* the per-run state of the other call.  content/frames and content/grid    *)
(* are shared.                                                             *)
(***************************************************************************)
OverlapEnv == [durations |-> {Value(500)}, faults |-> FALSE, reorder |-> FALSE]

\* the per-run state of the call that is taking steps, put aside
Suspended(flag) ==
    [pc |-> pc, error |-> error, sourceFolder |-> sourceFolder, duration |-> duration,
     config |-> config, frameCount |-> frameCount, frameFiles |-> frameFiles,
     inflight |-> inflight, startFrames |-> startFrames, startGrid |-> startGrid,
     settleOrder |-> settleOrder, lastDone |-> lastDone, prevDone |-> prevDone,
     video |-> video, perms |-> perms, reported |-> reported,
     extractCalls |-> extractCalls, thrown |-> thrown, rejection |-> rejection,
     interleaved |-> flag]

InitOverlap ==
    /\ Constructed(OverlapEnv, Dir(FALSE, NoFiles), Dir(FALSE, NoFiles))
    /\ DriverOff
    /\ planD = 0
    /\ planLower = 0
    /\ planPc = "off"
    /\ planConfig = NoConfig
    /\ planLowerConfig = NoConfig
    /\ planCalls = <<>>
    /\ LayoutOff /\ AnalyzerOff /\ EditorOff /\ CodegenOff
    /\ other = Suspended(FALSE)

\* the event loop turns to the other call: between two awaits of one call any
\* step of the other may run.  The calls have interleaved once this happens while
\* the call that is left is in the middle of its run.
switchCall ==
    /\ other.pc # "none"
    /\ other' = Suspended(other.interleaved \/ pc \notin {"Idle", "Done", "Failed"}
                              \/ inflight # {})
    /\ pc' = other.pc
    /\ error' = other.error
    /\ sourceFolder' = other.sourceFolder
    /\ duration' = other.duration
    /\ config' = other.config
    /\ frameCount' = other.frameCount
    /\ frameFiles' = other.frameFiles
    /\ inflight' = other.inflight
    /\ startFrames' = other.startFrames
    /\ startGrid' = other.startGrid
    /\ settleOrder' = other.settleOrder
    /\ lastDone' = other.lastDone
    /\ prevDone' = other.prevDone
    /\ video' = other.video
    /\ perms' = other.perms
    /\ reported' = other.reported
    /\ extractCalls' = other.extractCalls
    /\ thrown' = other.thrown
    /\ rejection' = other.rejection
    /\ UNCHANGED <<env, framesDir, gridDir, driver, layout, analyzer, editor, codegen>>
    /\ UNCHANGED planVars

\* each of the two callers calls process() once
callProcess ==
    /\ pc = "Idle"
    /\ beginProcess
    /\ UNCHANGED driver

NextOverlap ==
    \/ callProcess
    \/ validateFFmpeg
    \/ validateFolderPermissions
    \/ findVideo
    \/ validateDuration
    \/ prepareOutputFolder
    \/ unlinkSettles
    \/ extractFirstFrame
    \/ extractSettles
    \/ extractLastFrame
    \/ prepareGridFolder
    \/ issueGrids
    \/ gridSettles
    \/ finish
    \/ switchCall

SpecOverlap == InitOverlap /\ [][NextOverlap]_vars

\* the run reached Done with fewer files in a folder than it had written there
MissingAtDone ==
    /\ pc = "Done"
    /\ \/ lastDone.frames < Cardinality(Range(frameFiles))
       \/ lastDone.grids < CeilDiv(Len(frameFiles), 4)

\* when the run reached Done every file it had written was in its folder
CompleteAtDone ==
    /\ lastDone.frames = Cardinality(Range(frameFiles))
    /\ lastDone.grids = CeilDiv(Len(frameFiles), 4)

\* C24: when two runs of process() overlap on the same directories, an
\* interleaving is reachable in which the purge of one run deletes a frame or
\* grid file the other has already written, so that a run reaches Done while one
\* of its own files is missing (C24_Witness); with runs executed one after
\* another a run that reaches Done has all its files.
C24_SingleRunAtATime ==
    (pc = "Done" /\ ~ other.interleaved) => CompleteAtDone

\* a run reached Done although a file it wrote had been deleted by the other run
C24_Witness ==
    /\ MissingAtDone
    /\ other.interleaved
    /\ other.pc \notin {"Idle", "none"}

\* the frames purge of the other run removed frames this run had written
C24_WitnessFrames ==
    /\ pc = "Done"
    /\ other.interleaved
    /\ lastDone.frames < Cardinality(Range(frameFiles))
    /\ lastDone.grids = CeilDiv(Len(frameFiles), 4)

\* the grid purge of the other run removed the grid this run had written
C24_WitnessGrid ==
    /\ pc = "Done"
    /\ other.interleaved
    /\ lastDone.frames = Cardinality(Range(frameFiles))
    /\ lastDone.grids < CeilDiv(Len(frameFiles), 4)

\* one call after the other: both Done, each with all its files at its end
C24_WitnessSequential ==
    /\ pc = "Done"
    /\ other.pc = "Done"
    /\ ~ other.interleaved
    /\ CompleteAtDone

(***************************************************************************)
(* Analyzer harness: one call of GridToAction.process().  What the vision   *)
(* model answers is a JSON value, recorded by the shape of the fields the   *)
(* analyzer looks at: "array", "object", "string" (any other value) or      *)
(* "absent".                                                               *)
(***************************************************************************)
\* the most grid images content/grid holds
MaxGridImages == 2

GridAnalysisError(message, code) == [typed |-> TRUE, code |-> code, message |-> message]

AnalysisErrorCode ==
    {"API_KEY_MISSING", "FOLDER_ACCESS_ERROR", "NO_IMAGES_FOUND", "FILE_ACCESS_ERROR",
     "INVALID_RESPONSE_FORMAT", "ANALYSIS_ERROR", "UNKNOWN_ERROR"}

Shapes == {"array", "string", "absent"}
\* the fields of a parsed reply: the five fields validateResponse reads below
\* result.userView and result.technicalDetails, and `rest` for the arrays only
\* convertToMarkdown reads (errorScenarios, dynamicContent, selectors, ...)
Reply(kind, uv, as, pa, td, fr, an, ce, rest) ==
    [kind |-> kind, userView |-> uv, actionSequence |-> as, possibleAutomations |-> pa,
     technicalDetails |-> td, frames |-> fr, automationNotes |-> an,
     criticalElements |-> ce, rest |-> rest, totalFrames |-> 0]
NoReply ==
    Reply("none", "absent", "absent", "absent", "absent", "absent", "absent", "absent", "absent")
\* the API call rejects; the content is not JSON; the content is the JSON null
Unusable == {Reply(k, "absent", "absent", "absent", "absent", "absent", "absent", "absent",
                   "absent") : k \in {"rejected", "unparsable", "null"}}
\* a JSON object; a field below a missing object is missing
Objects ==
    {r \in {Reply("object", uv, as, pa, td, fr, an, ce, rest) :
                uv \in {"object", "absent"}, as \in Shapes, pa \in Shapes,
                td \in {"object", "string", "absent"}, fr \in Shapes,
                an \in {"object", "absent"}, ce \in Shapes, rest \in {"array", "absent"}} :
        /\ r.userView # "object" => r.actionSequence = "absent" /\ r.possibleAutomations = "absent"
        /\ r.technicalDetails # "object" => r.frames = "absent" /\ r.automationNotes = "absent"
        /\ r.automationNotes # "object" => r.criticalElements = "absent" /\ r.rest = "absent"}
Replies == Unusable \cup Objects

\* only the two containers are looked at
validateResponseLax(result) ==
    /\ result.kind = "object"
    /\ result.userView = "object"
    /\ result.technicalDetails = "object"

validateResponse(result) ==
    /\ result.kind = "object"
    /\ result.userView = "object"
    /\ result.technicalDetails = "object"
    /\ result.actionSequence = "array"
    /\ result.possibleAutomations = "array"
    /\ result.frames = "array"
    /\ result.automationNotes = "object"
    /\ result.criticalElements = "array"

\* the catch block of analyzeImages: whatever was thrown, a new ANALYSIS_ERROR
analyzeImagesCatch(e) ==
    GridAnalysisError(<<"Error analyzing images: ">> \o e.message, "ANALYSIS_ERROR")

\* the try block of analyzeImages
analyzeImagesTry(readOk, reply, images) ==
    IF ~ readOk THEN [ok |-> FALSE, value |-> NoReply, error |-> Error("ENOENT: no such file")]
    ELSE IF reply.kind = "rejected"
    THEN [ok |-> FALSE, value |-> NoReply, error |-> Error("Request failed")]
    ELSE IF reply.kind = "unparsable"
    THEN [ok |-> FALSE, value |-> NoReply, error |-> Error("Unexpected token in JSON")]
    ELSE IF ~ validateResponse(reply)
    THEN [ok |-> FALSE, value |-> NoReply,
          error |-> GridAnalysisError(<<"Invalid API response format">>,
                                      "INVALID_RESPONSE_FORMAT")]
    ELSE [ok |-> TRUE, value |-> [reply EXCEPT !.totalFrames = images], error |-> NoError]

\* the catch block of process() of the analyzer
analyzerCatch(e) ==
    IF e.typed THEN e
    ELSE GridAnalysisError(<<"Unexpected error during analysis: ">> \o e.message,
                           "UNKNOWN_ERROR")

Rejected(a, e) == [a EXCEPT !.pc = "rejected", !.rejection = analyzerCatch(e)]

InitAnalyzer ==
    /\ Constructed(ScenarioEnv, Dir(FALSE, NoFiles), Dir(FALSE, NoFiles))
    /\ DriverOff
    /\ planD = 0
    /\ planLower = 0
    /\ planPc = "off"
    /\ planConfig = NoConfig
    /\ planLowerConfig = NoConfig
    /\ planCalls = <<>>
    /\ LayoutOff /\ EditorOff /\ CodegenOff /\ OtherOff
    /\ \E f \in {"json", "markdown"} :
           analyzer = [pc |-> "called", format |-> f, images |-> 0, reply |-> NoReply,
                       result |-> NoReply, rejection |-> NoError, written |-> "none"]

analyzerUnchanged ==
    /\ UNCHANGED <<planVars, layout, editor, codegen, other>>
    /\ pipeUnchanged

\* fs.access(gridFolder, R_OK)
validateFolderAccess ==
    /\ analyzer.pc = "called"
    /\ \E ok \in BOOLEAN :
        analyzer' = IF ok THEN [analyzer EXCEPT !.pc = "listing"]
                    ELSE Rejected(analyzer,
                             GridAnalysisError(<<"Cannot access grid folder. Check if it exists and has proper permissions.">>,
                                               "FOLDER_ACCESS_ERROR"))
    /\ analyzerUnchanged

\* readdir, filter on the image extensions, numeric sort
getGridImages ==
    /\ analyzer.pc = "listing"
    /\ \E ok \in BOOLEAN, n \in 0 .. MaxGridImages :
        analyzer' =
            IF ~ ok
            THEN Rejected(analyzer,
                     GridAnalysisError(<<"Error accessing grid images: ">>
                                           \o Error("EACCES: permission denied").message,
                                       "FILE_ACCESS_ERROR"))
            ELSE IF n = 0
            THEN Rejected(analyzer,
                     GridAnalysisError(<<"No image files found in the grid folder.">>,
                                       "NO_IMAGES_FOUND"))
            ELSE [analyzer EXCEPT !.pc = "analyzing", !.images = n]
    /\ analyzerUnchanged

\* the images are read, the model is asked, its answer is parsed and checked
analyzeImages ==
    /\ analyzer.pc = "analyzing"
    /\ \E readOk \in BOOLEAN, reply \in Replies :
        LET r == analyzeImagesTry(readOk, reply, analyzer.images)
            \* the model is asked only when every image could be read
            asked == IF readOk THEN reply ELSE NoReply
        IN
        analyzer' =
            IF r.ok
            THEN [analyzer EXCEPT !.pc = "saving", !.reply = asked, !.result = r.value]
            ELSE [Rejected(analyzer, analyzeImagesCatch(r.error)) EXCEPT !.reply = asked]
    /\ analyzerUnchanged

\* JSON.stringify never throws on a parsed JSON value; convertToMarkdown throws a
\* TypeError when one of the arrays it maps is missing
Serialized(format, results) ==
    IF format = "markdown" /\ results.rest # "array"
    THEN [ok |-> FALSE, error |-> Error("Cannot read properties of undefined (reading 'map')")]
    ELSE [ok |-> TRUE, error |-> NoError]

\* fs.writeFile of the results in the chosen format, then return results
saveResults ==
    /\ analyzer.pc = "saving"
    /\ \E writeOk \in BOOLEAN :
        LET text == Serialized(analyzer.format, analyzer.result) IN
        analyzer' =
            IF ~ text.ok THEN Rejected(analyzer, text.error)
            ELSE IF ~ writeOk THEN Rejected(analyzer, Error("ENOSPC: no space left on device"))
            ELSE [analyzer EXCEPT !.pc = "returned", !.written = analyzer.format]
    /\ analyzerUnchanged

NextAnalyzer ==
    \/ validateFolderAccess
    \/ getGridImages
    \/ analyzeImages
    \/ saveResults

SpecAnalyzer == InitAnalyzer /\ [][NextAnalyzer]_vars

\* C27: when the answer of the vision model fails the shape check
\* (validateResponse is false), process() of the analyzer rejects with a
\* GridAnalysisError whose code is INVALID_RESPONSE_FORMAT.
C27_InvalidResponseCode ==
    (analyzer.pc = "rejected" /\ analyzer.reply.kind \in {"object", "null"}
         /\ ~ validateResponse(analyzer.reply)) =>
        /\ analyzer.rejection.typed
        /\ analyzer.rejection.code = "INVALID_RESPONSE_FORMAT"

\* What holds: an answer that fails the shape check makes process() reject with a
\* GridAnalysisError whose code is ANALYSIS_ERROR and whose message ends with the
\* message of the INVALID_RESPONSE_FORMAT error; no rejection of process() has
\* the code INVALID_RESPONSE_FORMAT.
InvalidResponseIsAnalysisError ==
    /\ (analyzer.pc = "rejected" /\ analyzer.reply.kind \in {"object", "null"}
            /\ ~ validateResponse(analyzer.reply)) =>
           analyzer.rejection
               = GridAnalysisError(<<"Error analyzing images: ", "Invalid API response format">>,
                                   "ANALYSIS_ERROR")
    /\ analyzer.pc = "rejected" => analyzer.rejection.code # "INVALID_RESPONSE_FORMAT"

\* the four lists of the record are arrays
FourArrays(r) ==
    /\ r.actionSequence = "array"
    /\ r.possibleAutomations = "array"
    /\ r.frames = "array"
    /\ r.criticalElements = "array"

\* C28: every record process() of the analyzer returns has passed the shape check
\* (userView.actionSequence, userView.possibleAutomations, technicalDetails.frames
\* and technicalDetails.automationNotes.criticalElements are arrays); the output
\* file is written only after that check passed; on any failure process() rejects
\* with a GridAnalysisError and has written no output file.
C28_ShapeCheckedOutput ==
    /\ analyzer.pc = "returned" =>
           /\ FourArrays(analyzer.result)
           /\ analyzer.result = [analyzer.reply EXCEPT !.totalFrames = analyzer.images]
    /\ analyzer.written # "none" =>
           /\ FourArrays(analyzer.reply)
           /\ analyzer.pc = "returned"
    /\ analyzer.pc = "rejected" =>
           /\ analyzer.rejection.typed
           /\ analyzer.rejection.code \in AnalysisErrorCode
           /\ analyzer.written = "none"

\* a checked record was written as markdown and returned
C28_Witness ==
    /\ analyzer.pc = "returned"
    /\ analyzer.written = "markdown"
    /\ FourArrays(analyzer.result)
    /\ analyzer.result.totalFrames = 2

\* the record passed the check and the write failed: a GridAnalysisError, no file
C28_WitnessWriteFailed ==
    /\ analyzer.pc = "rejected"
    /\ FourArrays(analyzer.reply)
    /\ analyzer.rejection.code = "UNKNOWN_ERROR"
    /\ analyzer.written = "none"

\* the answer failed the check: nothing is written
C28_WitnessUnchecked ==
    /\ analyzer.pc = "rejected"
    /\ analyzer.reply.kind = "object"
    /\ analyzer.reply.userView = "object"
    /\ analyzer.reply.actionSequence = "string"
    /\ analyzer.written = "none"

(***************************************************************************)
(* Editing harness: one TaskAnalysisDisplay.display() on one analysis.      *)
(* Arrays are objects: `heap` holds their contents and the fields of result *)
(* and taskInput hold references (indices of heap), so that sharing an      *)
(* array and copying it are different things.                              *)
(***************************************************************************)
\* the longest list the user builds
MaxItems == 3

Texts == {"a", "b"}
\* the empty text stands for every falsy answer of a text prompt ('' or undefined)
NoText == ""
\* the select prompt was given no choice or was aborted: index is undefined
NoIndex == -1

\* the action sequences and the lists of critical elements the analyzer hands over
AnalysedSequences == {<<>>, <<"a">>, <<"a", "b">>}
AnalysedElements == {<<>>, <<"a">>}

\* the same array again, not a copy
SpreadAliased(heap, ref) == [heap |-> heap, ref |-> ref]

\* [...array]: a new array with the same items
Spread(heap, ref) == [heap |-> Append(heap, heap[ref]), ref |-> Len(heap) + 1]

\* currentItems.splice(index, 1)
Splice(items, index) ==
    SubSeq(items, 1, index) \o SubSeq(items, index + 2, Len(items))

\* what the action prompt can answer; "cancel" stands for a cancelled prompt, whose
\* answer has no action
Actions == {"add", "edit", "remove", "done", "cancel"}

\* a cancelled prompt ends the loop as well
LoopExitsOnCancel(action) == action \in {"done", "cancel"}

\* if (action === 'done') break
LoopExits(action) == action = "done"

\* `if (index)` in place of `typeof index === 'number'`
editStepTruthyIndex(items, action, index, text) ==
    IF action = "add" THEN (IF text # NoText THEN Append(items, text) ELSE items)
    ELSE IF action \in {"edit", "remove"} /\ index # NoIndex /\ index # 0
    THEN IF action = "remove" THEN Splice(items, index)
         ELSE IF text # NoText THEN [items EXCEPT ![index + 1] = text] ELSE items
    ELSE items

\* one turn of the while loop of editItems on the list currentItems
editStep(items, action, index, text) ==
    IF action = "add" THEN (IF text # NoText THEN Append(items, text) ELSE items)
    ELSE IF action \in {"edit", "remove"} /\ index # NoIndex
    THEN IF action = "remove" THEN Splice(items, index)
         ELSE IF text # NoText THEN [items EXCEPT ![index + 1] = text] ELSE items
    ELSE items

NoSave == [saved |-> FALSE, originalSequence |-> <<>>, editedSequence |-> <<>>,
           editedElements |-> <<>>, editedType |-> "", selectedAutomationType |-> ""]
\* display() has not reached the selection step
NoSelection == "none"
\* possibleAutomations of the analysis; 'custom' asks for a text; a cancelled
\* prompt answers undefined
AutomationTypes == {"download", "form", "entered by the user", "undefined"}
NoAutomationConfig == [type |-> NoSelection, sequence |-> 0]

\* the configuration carries the action sequence of the analysis
ConfigOfAnalysis(e, automationType) ==
    [type |-> automationType, sequence |-> e.result.actionSequence]

\* const config = {type: automationType, sequence: this.taskInput.sequence}
ConfigOf(e, automationType) ==
    [type |-> automationType, sequence |-> e.taskInput.sequence]
NoAnswer == [action |-> "none", index |-> NoIndex, text |-> NoText]

InitEditor ==
    /\ Constructed(ScenarioEnv, Dir(FALSE, NoFiles), Dir(FALSE, NoFiles))
    /\ DriverOff
    /\ planD = 0
    /\ planLower = 0
    /\ planPc = "off"
    /\ planConfig = NoConfig
    /\ planLowerConfig = NoConfig
    /\ planCalls = <<>>
    /\ LayoutOff /\ AnalyzerOff /\ CodegenOff /\ OtherOff
    \* the constructor: result is kept, its two lists are copied into taskInput
    /\ \E seq \in AnalysedSequences, els \in AnalysedElements :
        LET heap0 == <<seq, els>>
            s == Spread(heap0, 1)
            e == Spread(s.heap, 2)
        IN editor = [pc |-> "overview",
                     ran |-> <<>>,
                     heap |-> e.heap,
                     result |-> [actionSequence |-> 1, criticalElements |-> 2],
                     taskInput |-> [type |-> "analysed", sequence |-> s.ref,
                                    elements |-> e.ref],
                     currentItems |-> 0,
                     analysed |-> [sequence |-> seq, elements |-> els],
                     answer |-> NoAnswer,
                     selected |-> NoSelection,
                     file |-> NoSave,
                     config |-> NoAutomationConfig]

editorUnchanged ==
    /\ UNCHANGED <<planVars, layout, analyzer, codegen, other>>
    /\ pipeUnchanged

\* the list the loop of editItems works on
Items(e) == e.heap[e.currentItems]

\* handleTaskOverview: the user confirms the type and summary or enters new ones
handleTaskOverview ==
    /\ editor.pc = "overview"
    /\ \E confirm \in BOOLEAN :
        editor' = [editor EXCEPT !.pc = "sequence",
                                 !.ran = Append(editor.ran, "overview"),
                                 !.taskInput.type = IF confirm THEN @ ELSE "entered"]
    /\ editorUnchanged

\* handleSequence / handleTechnicalElements: the user declines to modify, or
\* editItems is entered with the list of taskInput
handleList ==
    /\ editor.pc \in {"sequence", "elements"}
    /\ \E modify \in BOOLEAN :
        IF modify
        THEN LET items == IF editor.pc = "sequence" THEN editor.taskInput.sequence
                          ELSE editor.taskInput.elements
                 c == Spread(editor.heap, items)
             IN editor' = [editor EXCEPT !.pc = IF editor.pc = "sequence" THEN "editing steps"
                                                ELSE "editing elements",
                                         !.ran = Append(editor.ran, editor.pc),
                                         !.heap = c.heap,
                                         !.currentItems = c.ref,
                                         !.answer = NoAnswer]
        ELSE editor' = [editor EXCEPT !.pc = IF editor.pc = "sequence" THEN "elements"
                                             ELSE "selecting",
                                      !.ran = Append(editor.ran, editor.pc)]
    /\ editorUnchanged

\* one turn of the loop that is not the last: the user picks add, edit or remove,
\* an item when there is one to pick, and a text, or cancels the action prompt
editTurn ==
    /\ editor.pc \in {"editing steps", "editing elements"}
    /\ \E action \in Actions,
          index \in (0 .. (Len(Items(editor)) - 1)) \cup {NoIndex},
          text \in Texts \cup {NoText} :
        /\ ~ LoopExits(action)
        \* the index prompt is shown for edit and remove only, the text prompt for
        \* add and for edit with an index
        /\ action \in {"add", "cancel"} => index = NoIndex
        /\ (action \in {"remove", "cancel"} \/ index = NoIndex) /\ action # "add"
               => text = NoText
        /\ Len(editStep(Items(editor), action, index, text)) <= MaxItems
        /\ editor' = [editor EXCEPT
                          !.heap[editor.currentItems] =
                              editStep(Items(editor), action, index, text),
                          !.answer = [action |-> action, index |-> index, text |-> text]]
    /\ editorUnchanged

\* 'done': editItems returns currentItems, which becomes the list of taskInput
editDone ==
    /\ editor.pc \in {"editing steps", "editing elements"}
    /\ \E action \in Actions :
        /\ LoopExits(action)
        /\ LET answer == [action |-> action, index |-> NoIndex, text |-> NoText] IN
           editor' = IF editor.pc = "editing steps"
                     THEN [editor EXCEPT !.pc = "elements",
                                         !.taskInput.sequence = editor.currentItems,
                                         !.answer = answer]
                     ELSE [editor EXCEPT !.pc = "selecting",
                                         !.taskInput.elements = editor.currentItems,
                                         !.answer = answer]
    /\ editorUnchanged

\* handleAutomationSelection, saveTaskInput (a failed write is logged and
\* swallowed) and the AutomationConfig that display() returns
\* handleAutomationSelection: one of possibleAutomations, a custom text, or
\* nothing when the prompt is cancelled
handleAutomationSelection ==
    /\ editor.pc = "selecting"
    /\ \E choice \in AutomationTypes :
        editor' = [editor EXCEPT !.pc = "saving",
                                 !.ran = Append(editor.ran, "selection"),
                                 !.selected = choice]
    /\ editorUnchanged

\* saveTaskInput(automationType): the file is written; a failed write is logged
\* and swallowed
saveTaskInput ==
    /\ editor.pc = "saving"
    /\ \E writeOk \in BOOLEAN :
        editor' = [editor EXCEPT
                       !.pc = "summary",
                       !.ran = Append(editor.ran, "save"),
                       !.file = IF writeOk
                                THEN [saved |-> TRUE,
                                      originalSequence |-> editor.heap[editor.result.actionSequence],
                                      editedSequence |-> editor.heap[editor.taskInput.sequence],
                                      editedElements |-> editor.heap[editor.taskInput.elements],
                                      editedType |-> editor.taskInput.type,
                                      selectedAutomationType |-> editor.selected]
                                ELSE NoSave]
    /\ editorUnchanged

\* the configuration is built, displayConfigSummary shows it, display() returns it
displayConfigSummary ==
    /\ editor.pc = "summary"
    /\ editor' = [editor EXCEPT !.pc = "returned",
                                !.ran = Append(editor.ran, "summary"),
                                !.config = ConfigOf(editor, editor.selected)]
    /\ editorUnchanged

NextEditor ==
    \/ handleTaskOverview
    \/ handleList
    \/ editTurn
    \/ editDone
    \/ handleAutomationSelection
    \/ saveTaskInput
    \/ displayConfigSummary

SpecEditor == InitEditor /\ [][NextEditor]_vars

\* C29: editing never changes the analysis it started from: after any sequence of
\* add / edit / remove in editItems on the action sequence or on the technical
\* elements, result.userView.actionSequence and
\* result.technicalDetails.automationNotes.criticalElements are what the analyzer
\* returned, so the originalAnalysis.sequence saved by saveTaskInput is the
\* analyzer's action sequence while userEdits.sequence is the edited one.
C29_OriginalUntouched ==
    editor.pc # "off" =>
        /\ editor.heap[editor.result.actionSequence] = editor.analysed.sequence
        /\ editor.heap[editor.result.criticalElements] = editor.analysed.elements
        /\ editor.file.saved =>
            /\ editor.file.originalSequence = editor.analysed.sequence
            /\ editor.file.editedSequence = editor.heap[editor.taskInput.sequence]
            /\ editor.file.editedElements = editor.heap[editor.taskInput.elements]

\* the user replaced both steps and added a third; the file holds both versions
C29_Witness ==
    /\ editor.pc = "returned"
    /\ editor.file.saved
    /\ editor.file.originalSequence = <<"a", "b">>
    /\ editor.file.editedSequence = <<"b", "a", "a">>
    /\ editor.heap[editor.result.actionSequence] = <<"a", "b">>

\* the only critical element was removed from the edited list, not from the result
C29_WitnessElements ==
    /\ editor.pc = "returned"
    /\ editor.file.saved
    /\ editor.analysed.elements = <<"a">>
    /\ editor.file.editedElements = <<>>
    /\ editor.heap[editor.result.criticalElements] = <<"a">>

\* one turn of the loop of editItems was taken (a turn that repeats the answers of
\* the turn before it and leaves the list as it is changes nothing at all)
Turn ==
    /\ editor.pc \in {"editing steps", "editing elements"}
    /\ editor'.pc = editor.pc
    /\ editor' # editor

\* the turn changes the list in the one way its answers ask for
TurnEffect ==
    LET before == Items(editor)
        after == Items(editor')
        a == editor'.answer
        i == a.index + 1
    IN /\ (a.action = "add" /\ a.text # NoText) =>
              /\ Len(after) = Len(before) + 1
              /\ SubSeq(after, 1, Len(before)) = before
              /\ after[Len(after)] = a.text
       /\ (a.action = "remove" /\ a.index # NoIndex) =>
              /\ Len(after) = Len(before) - 1
              /\ \A k \in 1 .. Len(after) : after[k] = IF k < i THEN before[k] ELSE before[k + 1]
       /\ (a.action = "edit" /\ a.index # NoIndex /\ a.text # NoText) =>
              /\ Len(after) = Len(before)
              /\ after[i] = a.text
              /\ \A k \in 1 .. Len(before) : k # i => after[k] = before[k]
       /\ ((a.action = "add" /\ a.text = NoText)
             \/ (a.action \in {"edit", "remove"} /\ a.index = NoIndex)
             \/ (a.action = "edit" /\ a.text = NoText)) =>
              after = before

\* C30: each turn of the editItems loop changes the working list in exactly one
\* way: 'add' with a non-empty text appends it (length + 1, earlier items
\* unchanged); 'remove' with a selected index deletes exactly that item (length
\* - 1, order of the others kept); 'edit' with a non-empty text replaces exactly
\* the selected item (length unchanged); an empty text or a missing index leaves
\* the list unchanged; the relative order of untouched items never changes.
C30_OneChangePerTurn == [][Turn => TurnEffect]_vars

\* the first of three items was removed in the latest turn
C30_Witness ==
    /\ editor.pc = "editing steps"
    /\ editor.answer = [action |-> "remove", index |-> 0, text |-> NoText]
    /\ Items(editor) = <<"b", "a">>

\* the first item was replaced in the latest turn
C30_WitnessEdit ==
    /\ editor.pc = "editing elements"
    /\ editor.answer = [action |-> "edit", index |-> 0, text |-> "b"]
    /\ Items(editor) = <<"b", "a">>

\* an item was appended in the latest turn
C30_WitnessAdd ==
    /\ editor.pc = "editing steps"
    /\ editor.answer = [action |-> "add", index |-> NoIndex, text |-> "b"]
    /\ Items(editor) = <<"a", "a", "b">>

(***************************************************************************)
(* The end of the editing loop.                                            *)
(***************************************************************************)
Editing == editor.pc \in {"editing steps", "editing elements"}

\* editItems returns in this step: the list under edit becomes the list of taskInput
EditItemsReturns ==
    /\ Editing
    /\ editor'.pc # editor.pc
    /\ editor'.heap[IF editor.pc = "editing steps" THEN editor'.taskInput.sequence
                    ELSE editor'.taskInput.elements] = Items(editor)

\* the action prompt was answered in this step
Prompted == Editing /\ editor' # editor

\* C31: editItems returns exactly when the user selects 'Done': the step in which
\* the action prompt answers 'done' is the step in which editItems returns, every
\* other answer (a cancelled prompt included) keeps the loop running, and 'Done'
\* can be selected at every prompt, so the loop ends if the user ever selects it.
C31_ReturnsOnDone ==
    /\ [][Prompted => (EditItemsReturns <=> editor'.answer.action = "done")]_vars
    /\ [][(Prompted /\ editor'.answer.action # "done") =>
              (editor'.pc = editor.pc /\ editor'.currentItems = editor.currentItems)]_vars
    /\ [](Editing => ENABLED editDone)

\* the prompt was cancelled: the loop goes on with the list as it was
C31_Witness ==
    /\ editor.pc = "editing steps"
    /\ editor.answer.action = "cancel"
    /\ Items(editor) = <<"a", "b">>

\* 'Done' after two items were added to an empty list: editItems returned them
C31_WitnessDone ==
    /\ editor.pc = "elements"
    /\ editor.answer.action = "done"
    /\ editor.analysed.sequence = <<>>
    /\ editor.heap[editor.taskInput.sequence] = <<"b", "a">>

(***************************************************************************)
(* The steps of display().                                                 *)
(***************************************************************************)
DisplaySteps == <<"overview", "sequence", "elements", "selection", "save", "summary">>

\* C32: display() runs its steps in the fixed order overview -> sequence ->
\* elements -> automation selection -> save -> summary, and the configuration it
\* returns has type = the automation type selected in the selection step and
\* sequence = the final edited sequence, the one written to userEdits.sequence
\* in the automation input file.
C32_DisplayOrder ==
    editor.pc # "off" =>
        /\ Len(editor.ran) <= Len(DisplaySteps)
        /\ editor.ran = SubSeq(DisplaySteps, 1, Len(editor.ran))
        /\ editor.pc = "returned" =>
            /\ editor.ran = DisplaySteps
            /\ editor.selected # NoSelection
            /\ editor.config.type = editor.selected
            /\ editor.heap[editor.config.sequence] = editor.heap[editor.taskInput.sequence]
            /\ editor.file.saved =>
                /\ editor.file.editedSequence = editor.heap[editor.config.sequence]
                /\ editor.file.selectedAutomationType = editor.config.type

\* all six steps ran; the returned sequence is the edited one, not the analyzer's
C32_Witness ==
    /\ editor.pc = "returned"
    /\ editor.ran = DisplaySteps
    /\ editor.config.type = "form"
    /\ editor.file.saved
    /\ editor.analysed.sequence = <<"a", "b">>
    /\ editor.heap[editor.config.sequence] = <<"b">>
    /\ editor.file.editedSequence = <<"b">>

\* the write failed: the configuration is returned all the same
C32_WitnessNotSaved ==
    /\ editor.pc = "returned"
    /\ ~ editor.file.saved
    /\ editor.config.type = "entered by the user"
    /\ editor.heap[editor.config.sequence] = <<"a", "a", "a">>

(***************************************************************************)
(* Generation harness: one call of generateAutomationCode.  The validator   *)
(* of the repository always answers valid; the loop around it is written    *)
(* for a validator that can report issues, so the harness runs it with      *)
(* either.                                                                 *)
(***************************************************************************)
\* the most validations of one call
MaxValidations == 4

Issues == {"selector", "timeout"}
Validators == {"CodeValidatorAgent", "reporting"}

\* what validateCode of the validator can answer
\* CodeValidatorAgent.validateCode: {valid: true, issues: []}
ValidationResults(validator) ==
    IF validator = "CodeValidatorAgent"
    THEN {[valid |-> TRUE, issues |-> {}]}
    ELSE {[valid |-> TRUE, issues |-> {}]}
             \cup {[valid |-> FALSE, issues |-> is] : is \in SUBSET Issues}

\* one call of an agent, as the loop made it
AgentCall(agent, valid, issues) == [agent |-> agent, valid |-> valid, issues |-> issues]

Validations(calls) == {k \in DOMAIN calls : calls[k].agent = "validator"}

InitGenerate ==
    /\ Constructed(ScenarioEnv, Dir(FALSE, NoFiles), Dir(FALSE, NoFiles))
    /\ DriverOff
    /\ planD = 0
    /\ planLower = 0
    /\ planPc = "off"
    /\ planConfig = NoConfig
    /\ planLowerConfig = NoConfig
    /\ planCalls = <<>>
    /\ LayoutOff /\ AnalyzerOff /\ EditorOff /\ OtherOff
    /\ \E v \in Validators :
           codegen = [pc |-> "generating", validator |-> v, calls |-> <<>>]

codegenUnchanged ==
    /\ UNCHANGED <<planVars, layout, analyzer, editor, other>>
    /\ pipeUnchanged

\* the loop ends at the first validation, whatever it says
LoopEndsUnchecked(validationResult) == TRUE

\* if (validationResult.valid) { isValid = true; break }
LoopEnds(validationResult) == validationResult.valid

\* codeGeneratorAgent.generateCode(inputFilePath), before the loop and after a fix
generateCode ==
    /\ codegen.pc = "generating"
    /\ codegen' = [codegen EXCEPT !.pc = "validating",
                                  !.calls = Append(@, AgentCall("generator", TRUE, {}))]
    /\ codegenUnchanged

\* codeValidatorAgent.validateCode(); a valid result ends the loop and the
\* function returns ''
validateCode ==
    /\ codegen.pc = "validating"
    /\ Cardinality(Validations(codegen.calls)) < MaxValidations
    /\ \E validationResult \in ValidationResults(codegen.validator) :
        codegen' = [codegen EXCEPT
                        !.pc = IF LoopEnds(validationResult) THEN "returned" ELSE "fixing",
                        !.calls = Append(@, AgentCall("validator", validationResult.valid,
                                                      validationResult.issues))]
    /\ codegenUnchanged

\* codeFixerAgent.fixCode(issues) with the issues of the latest validation
fixCode ==
    /\ codegen.pc = "fixing"
    /\ codegen' = [codegen EXCEPT
                       !.pc = "generating",
                       !.calls = Append(@, AgentCall("fixer", TRUE,
                                                     codegen.calls[Len(codegen.calls)].issues))]
    /\ codegenUnchanged

NextGenerate ==
    \/ generateCode
    \/ validateCode
    \/ fixCode

SpecGenerate == InitGenerate /\ [][NextGenerate]_vars

\* every call of an agent resolves: no step of the function waits for ever
SpecGenerateLive == SpecGenerate /\ WF_vars(NextGenerate)

(***************************************************************************)
(* The generate / validate / fix protocol.                                 *)
(***************************************************************************)
\* the calls made so far follow generate, (validate: not valid, fix, generate)*,
\* and the function has returned exactly when the latest call is a validation
\* that answered valid
Protocol ==
    LET calls == codegen.calls
        n == Len(calls)
    IN /\ n >= 1 => calls[1].agent = "generator"
       /\ \A k \in Validations(calls) : k >= 2 /\ calls[k - 1].agent = "generator"
       /\ \A k \in 1 .. n :
           /\ calls[k].agent = "fixer" =>
               /\ k >= 2
               /\ calls[k - 1].agent = "validator" /\ ~ calls[k - 1].valid
               /\ calls[k].issues = calls[k - 1].issues
               /\ IF k < n THEN calls[k + 1].agent = "generator"
                  ELSE codegen.pc = "generating"
           /\ calls[k].agent = "generator" =>
               /\ k > 1 => calls[k - 1].agent = "fixer"
               /\ IF k < n THEN calls[k + 1].agent = "validator"
                  ELSE codegen.pc = "validating"
           /\ (calls[k].agent = "validator" /\ ~ calls[k].valid) =>
               IF k < n THEN calls[k + 1].agent = "fixer" ELSE codegen.pc = "fixing"
           /\ (calls[k].agent = "validator" /\ calls[k].valid) =>
               k = n /\ codegen.pc = "returned"
       /\ codegen.pc = "returned" =>
           /\ n >= 2
           /\ calls[n].agent = "validator" /\ calls[n].valid
           /\ codegen.validator = "CodeValidatorAgent" =>
               calls = <<AgentCall("generator", TRUE, {}), AgentCall("validator", TRUE, {})>>

\* C33: the loop of generateAutomationCode follows the protocol: code is
\* generated once before the first validation; the fixer is called only right
\* after a validation that was not valid, and every fix is followed by a
\* generation and then a new validation; the function returns only after, and
\* as soon as, a validation answered valid; with the validator of the
\* repository it returns after exactly one validation and no fix.
C33_GenerateValidateFix ==
    /\ [][codegen'.pc # "off" => Protocol']_vars
    /\ (codegen.validator = "CodeValidatorAgent") ~> (codegen.pc = "returned")

\* two validations reported issues, both were fixed, the third was valid
C33_Witness ==
    /\ codegen.pc = "returned"
    /\ Len(codegen.calls) = 8
    /\ codegen.calls[3] = AgentCall("fixer", TRUE, {"selector"})
    /\ codegen.calls[6] = AgentCall("fixer", TRUE, {})

\* the validator of the repository: one generation, one validation
C33_WitnessCurrent ==
    /\ codegen.pc = "returned"
    /\ codegen.validator = "CodeValidatorAgent"
    /\ Len(codegen.calls) = 2

====
